---- MODULE Spec2Model ----
(***************************************************************************)
(* Receipt -> FreeAgent: the route handlers that create a Bill or an       *)
(* Expense in the accounting API and attach the receipt to it, with the    *)
(* process-wide credentials (process.env) they share.                      *)
(*                                                                         *)
(* One request is one run of a handler's POST.  Every await of a network   *)
(* call is a point where another request may run, so a logical call is     *)
(* split into the steps between its awaits: Call (read the token, send),   *)
(* Recv1 (first response; on 401 send the token request), RecvToken        *)
(* (token endpoint response; store, resend) and Recv2 (second response).   *)
(* The upstream is free: every response is drawn from Statuses and from    *)
(* the bodies below.  Spec runs one request against that upstream,         *)
(* SpecBuild one request whose body varies in the fields the payload is    *)
(* built from, SpecConcurrent two requests that overlap, SpecSequential    *)
(* two requests one after the other against a contact store, SpecLive one  *)
(* request whose upstream calls all return, and SpecAnalyze one call of a  *)
(* normaliser of the analyser.                                             *)
(***************************************************************************)
EXTENDS Integers, Sequences, FiniteSets, TLC

VARIABLES
    mode,          \* "single": one request; "build": one request, the body
                   \* varies; "concurrent": requests overlap; "sequential":
                   \* one request after the other; "analyze": a normaliser
    accessToken,   \* process.env.FREEAGENT_ACCESS_TOKEN   (0 = unset / "")
    refreshToken,  \* process.env.FREEAGENT_REFRESH_TOKEN
    issuedAccess,  \* token endpoint: last access token it issued
    issuedRefresh, \* token endpoint: last refresh token it issued
    handler,       \* handler[r]: the route that serves request r
    inp,           \* inp[r]: the request's JSON body
    pc,            \* pc[r]: position of the handler between its awaits
    step,          \* step[r]: the logical call in progress
    attempt,       \* attempt[r]: index of the (url, body) pair in fa-upload
    token,         \* token[r]: the local variable token / t
    res,           \* res[r]: status of the local variable res / r
    txt,           \* txt[r]: the local variable text / txt
    lastText,      \* lastText[r]: fa-upload's lastText
    refs,          \* refs[r]: contactUrl / userUrl and billUrl / expenseUrl
    resp,          \* resp[r]: the response returned to the caller
    log,           \* log[r]: upstream calls of the request, in issue order
    wire,          \* wire[r]: last upstream response received
    ocr            \* the analyser's call of a normaliser and its result

vars == <<mode, accessToken, refreshToken, issuedAccess, issuedRefresh,
          handler, inp, pc, step, attempt, token, res, txt, lastText,
          refs, resp, log, wire, ocr>>

(***************************************************************************)
(* Bounds                                                                  *)
(***************************************************************************)
\* length of the longest upstream body the upstream is allowed to return
MaxBodyLen == 2500

Reqs == {1, 2}

(***************************************************************************)
(* Values                                                                  *)
(***************************************************************************)
NoToken == 0
NoRef == 0
Pending == 0

FaUpload == "fa-upload"
FaBillAttach == "fa-bill-attach"
FaBillPut == "fa-bill-put"
FaBillInline == "fa-bill-upload"
FaExpense == "fa-expense-upload"
Confirm == "confirm"

Handlers == {FaUpload, FaBillAttach, FaBillPut, FaBillInline, FaExpense, Confirm}

\* the handlers whose upstream calls go through withToken
WithTokenHandlers == {FaBillAttach, FaBillPut, FaBillInline, FaExpense}

Statuses == {200, 401, 422}

Ok(s) == s >= 200 /\ s <= 299

Min(a, b) == IF a <= b THEN a ELSE b

Max(a, b) == IF a >= b THEN a ELSE b

Last(s) == s[Len(s)]

(***************************************************************************)
(* Strings of the request body are sequences of characters, numbers are    *)
(* decimal: sign, digits and number of digits after the point.             *)
(***************************************************************************)
Digits == {"0", "1", "2", "3", "4", "5", "6", "7", "8", "9"}

DigitValue(c) ==
    CASE c = "0" -> 0 [] c = "1" -> 1 [] c = "2" -> 2 [] c = "3" -> 3
      [] c = "4" -> 4 [] c = "5" -> 5 [] c = "6" -> 6 [] c = "7" -> 7
      [] c = "8" -> 8 [] OTHER -> 9

\* String.prototype.slice(0, n) on a sequence of characters
Take(s, n) == SubSeq(s, 1, Min(Len(s), n))

RECURSIVE TrimStart(_)
TrimStart(s) == IF s # << >> /\ s[1] = " " THEN TrimStart(Tail(s)) ELSE s

RECURSIVE TrimEnd(_)
TrimEnd(s) ==
    IF s # << >> /\ s[Len(s)] = " " THEN TrimEnd(SubSeq(s, 1, Len(s) - 1)) ELSE s

\* String.prototype.trim()
Trim(s) == TrimEnd(TrimStart(s))

\* a || b on strings: the empty string is falsy
OrElse(a, b) == IF a # << >> THEN a ELSE b

\* .replace(/[^\d.-]/g, "")
StripNonNumeric(s) == SelectSeq(s, LAMBDA c : c \in Digits \cup {".", "-"})

\* the value of a payload field that holds an amount: a number (NaN
\* included), a string passed on as it came, or undefined (field left out)
NaN == [type |-> "number", nan |-> TRUE, neg |-> FALSE, mant |-> 0, scale |-> 0]

Undefined == [type |-> "undefined", nan |-> FALSE, neg |-> FALSE, mant |-> 0, scale |-> 0]

RECURSIVE Mantissa(_)
Mantissa(s) ==
    IF s = << >> THEN 0
    ELSE IF Last(s) = "." THEN Mantissa(SubSeq(s, 1, Len(s) - 1))
    ELSE 10 * Mantissa(SubSeq(s, 1, Len(s) - 1)) + DigitValue(Last(s))

RECURSIVE Scale(_)
Scale(s) ==
    IF s = << >> \/ Last(s) = "." THEN 0 ELSE 1 + Scale(SubSeq(s, 1, Len(s) - 1))

\* Number(s) for a string of digits, points and minus signs: the empty
\* string is 0; an optional sign, digits with at most one point and at
\* least one digit is that decimal; anything else is NaN
Number(s) ==
    LET neg == s # << >> /\ s[1] = "-"
        body == IF neg THEN Tail(s) ELSE s
        points == Len(SelectSeq(body, LAMBDA c : c = "."))
        digits == Len(SelectSeq(body, LAMBDA c : c \in Digits))
    IN  IF s = << >>
        THEN [type |-> "number", nan |-> FALSE, neg |-> FALSE, mant |-> 0, scale |-> 0]
        ELSE IF points + digits # Len(body) \/ points > 1 \/ digits = 0 THEN NaN
        ELSE [type |-> "number", nan |-> FALSE, neg |-> neg, mant |-> Mantissa(body),
              scale |-> IF points = 0 THEN 0 ELSE Scale(body)]

\* Math.abs
MathAbs(n) == [n EXCEPT !.neg = FALSE]

\* /^\d{4}-\d{2}-\d{2}$/.test(s)
IsIsoDate(s) ==
    /\ Len(s) = 10
    /\ \A k \in 1..10 : IF k \in {5, 8} THEN s[k] = "-" ELSE s[k] \in Digits

\* new Date().toISOString().slice(0, 10)
today == <<"2", "0", "2", "6", "-", "1", "1", "-", "0", "1">>

(***************************************************************************)
(* The receipt analyser's normalisers (OCR fields -> form values): dates   *)
(* and amounts are strings of characters, a Date is its time value in      *)
(* hours since the epoch, or invalid.                                      *)
(***************************************************************************)
UpperCase == <<"A", "B", "C", "D", "E", "F", "G", "H", "I", "J", "K", "L", "M", "N", "O", "P", "Q", "R", "S", "T", "U", "V", "W", "X", "Y", "Z">>

LowerCase == <<"a", "b", "c", "d", "e", "f", "g", "h", "i", "j", "k", "l", "m", "n", "o", "p", "q", "r", "s", "t", "u", "v", "w", "x", "y", "z">>

Letters == {UpperCase[k] : k \in 1..26} \cup {LowerCase[k] : k \in 1..26}

\* String.prototype.toLowerCase()
toLowerCase(s) ==
    [k \in 1..Len(s) |->
        IF \E n \in 1..26 : UpperCase[n] = s[k]
        THEN LowerCase[CHOOSE n \in 1..26 : UpperCase[n] = s[k]]
        ELSE s[k]]

\* parseInt(s, 10) of a string of digits
parseInt(s) == Mantissa(s)

\* String(n) of a natural number
RECURSIVE Decimal(_)
Decimal(n) ==
    LET digit == <<"0", "1", "2", "3", "4", "5", "6", "7", "8", "9">>
    IN  IF n < 10 THEN <<digit[n + 1]>>
        ELSE Decimal(n \div 10) \o <<digit[(n % 10) + 1]>>

\* String.prototype.padStart(w, "0")
RECURSIVE PadStart(_, _)
PadStart(s, w) == IF Len(s) >= w THEN s ELSE PadStart(<<"0">> \o s, w)

\* number of days from 1970-01-01 to the day d of month m (1..12) of year y
DaysFromCivil(y, m, d) ==
    LET yy == IF m <= 2 THEN y - 1 ELSE y
        era == yy \div 400
        yoe == yy - era * 400
        mp == (m + 9) % 12
        doy == ((153 * mp + 2) \div 5) + d - 1
        doe == yoe * 365 + (yoe \div 4) - (yoe \div 100) + doy
    IN  era * 146097 + doe - 719468

\* the calendar date of the day z days after 1970-01-01
CivilFromDays(z) ==
    LET zz == z + 719468
        era == zz \div 146097
        doe == zz - era * 146097
        yoe == (doe - (doe \div 1460) + (doe \div 36524) - (doe \div 146096)) \div 365
        doy == doe - (365 * yoe + (yoe \div 4) - (yoe \div 100))
        mp == (5 * doy + 2) \div 153
        d == doy - ((153 * mp + 2) \div 5) + 1
        m == IF mp < 10 THEN mp + 3 ELSE mp - 9
    IN  [y |-> yoe + era * 400 + (IF m <= 2 THEN 1 ELSE 0), m |-> m, d |-> d]

InvalidDate == [valid |-> FALSE, time |-> 0]

\* MakeDay: month index mi counts from 0 and carries into the year, the day
\* d carries into the following months
MakeDay(y, mi, d) == DaysFromCivil(y + (mi \div 12), (mi % 12) + 1, 1) + d - 1

\* new Date(Date.UTC(y, mi, d)): a year 0..99 is 1900 + y
DateUTC(y, mi, d) ==
    [valid |-> TRUE, time |-> 24 * MakeDay(IF y \in 0..99 THEN 1900 + y ELSE y, mi, d)]

\* d.toISOString().slice(0, 10)
ymd(d) ==
    LET c == CivilFromDays(d.time \div 24)
    IN  PadStart(Decimal(c.y), 4) \o <<"-">> \o PadStart(Decimal(c.m), 2)
            \o <<"-">> \o PadStart(Decimal(c.d), 2)

(***************************************************************************)
(* new Date(string) on Node (V8).  A string in the date-only ISO form      *)
(* YYYY, YYYY-MM or YYYY-MM-DD is UTC; any other string goes on to the     *)
(* legacy parser, which collects up to three numbers and a month name and  *)
(* reads the result as local time.  The strings drawn here hold digits,    *)
(* letters, blanks and the separators / . - only, and none of the words    *)
(* the parser reads as a time, AM/PM or zone.                              *)
(***************************************************************************)
IsDay(x) == x \in 1..31

IsMonth(x) == x \in 1..12

\* offset of the process's local time from UTC, in hours
TimeZones == {-5, 0, 1}

RECURSIVE RunLen(_, _, _)
RunLen(s, p, S) == IF p <= Len(s) /\ s[p] \in S THEN 1 + RunLen(s, p + 1, S) ELSE 0

\* the month a word names to the parser: the first three letters decide
KeywordMonth(w) ==
    LET pre == toLowerCase(Take(w, 3))
    IN  CASE pre = <<"j", "a", "n">> -> 1
          [] pre = <<"f", "e", "b">> -> 2
          [] pre = <<"m", "a", "r">> -> 3
          [] pre = <<"a", "p", "r">> -> 4
          [] pre = <<"m", "a", "y">> -> 5
          [] pre = <<"j", "u", "n">> -> 6
          [] pre = <<"j", "u", "l">> -> 7
          [] pre = <<"a", "u", "g">> -> 8
          [] pre = <<"s", "e", "p">> -> 9
          [] pre = <<"o", "c", "t">> -> 10
          [] pre = <<"n", "o", "v">> -> 11
          [] pre = <<"d", "e", "c">> -> 12
          [] OTHER -> 0

\* the tokens of s from position p on: numbers, words, blanks and symbols
RECURSIVE DateTokens(_, _)
DateTokens(s, p) ==
    IF p > Len(s) THEN << >>
    ELSE IF s[p] \in Digits
    THEN LET n == RunLen(s, p, Digits)
         IN  <<[type |-> "number", val |-> Mantissa(SubSeq(s, p, p + n - 1)),
                len |-> n, ch |-> ""]>> \o DateTokens(s, p + n)
    ELSE IF s[p] \in Letters
    THEN LET n == RunLen(s, p, Letters)
         IN  <<[type |-> "word", val |-> KeywordMonth(SubSeq(s, p, p + n - 1)),
                len |-> n, ch |-> ""]>> \o DateTokens(s, p + n)
    ELSE IF s[p] = " "
    THEN <<[type |-> "space", val |-> 0, len |-> RunLen(s, p, {" "}), ch |-> " "]>>
            \o DateTokens(s, p + RunLen(s, p, {" "}))
    ELSE <<[type |-> "symbol", val |-> 0, len |-> 1, ch |-> s[p]]>>
            \o DateTokens(s, p + 1)

IsFixedNumber(toks, i, n) ==
    i <= Len(toks) /\ toks[i].type = "number" /\ toks[i].len = n

IsSymbol(toks, i, c) == i <= Len(toks) /\ toks[i].type = "symbol" /\ toks[i].ch = c

\* the ISO date at the head of the tokens: the numbers read, whether the
\* whole input was an ISO date, and the first token left to the legacy parser
ParseES5DateTime(toks) ==
    LET Done(day, i) == [day |-> day, iso |-> i > Len(toks), next |-> i]
        Left(day, i) == [day |-> day, iso |-> FALSE, next |-> i]
        y == <<toks[1].val>>
        ym == <<toks[1].val, toks[3].val>>
    IN  IF ~IsFixedNumber(toks, 1, 4) THEN Left(<< >>, 1)
        ELSE IF ~IsSymbol(toks, 2, "-") THEN Done(y, 2)
        ELSE IF ~(IsFixedNumber(toks, 3, 2) /\ IsMonth(toks[3].val)) THEN Left(y, 3)
        ELSE IF ~IsSymbol(toks, 4, "-") THEN Done(ym, 4)
        ELSE IF ~(IsFixedNumber(toks, 5, 2) /\ IsDay(toks[5].val)) THEN Left(ym, 5)
        ELSE Done(ym \o <<toks[5].val>>, 6)

\* the legacy parser from token i on: a number is one more component (a
\* fourth one is an error), a month name sets the month, any other word is
\* an error after a number or right before one, a sign that follows no
\* number or month name is an error once a number was read
RECURSIVE LegacyParse(_, _, _, _, _)
LegacyParse(toks, i, day, month, has_read_number) ==
    IF i > Len(toks) THEN [ok |-> TRUE, day |-> day, month |-> month]
    ELSE LET t == toks[i]
             NoDay == [ok |-> FALSE, day |-> << >>, month |-> 0]
             afterPoint == IF IsSymbol(toks, i + 1, ".") THEN i + 2 ELSE i + 1
             afterNumber == IF IsSymbol(toks, afterPoint, "-")
                            THEN afterPoint + 1 ELSE afterPoint
             afterMonth == IF IsSymbol(toks, i + 1, "-") THEN i + 2 ELSE i + 1
         IN  CASE t.type = "number" ->
                    IF Len(day) >= 3 THEN NoDay
                    ELSE LegacyParse(toks, afterNumber, Append(day, t.val), month, TRUE)
               [] t.type = "word" /\ t.val # 0 ->
                    LegacyParse(toks, afterMonth, day, t.val, has_read_number)
               [] t.type = "word" /\ t.val = 0 ->
                    IF has_read_number
                       \/ (i + 1 <= Len(toks) /\ toks[i + 1].type = "number")
                    THEN NoDay
                    ELSE LegacyParse(toks, i + 1, day, month, has_read_number)
               [] t.type = "symbol" /\ t.ch \in {"-", "+"} /\ has_read_number -> NoDay
               [] OTHER -> LegacyParse(toks, i + 1, day, month, has_read_number)

\* DayComposer::Write: missing components are 1; without a month name the
\* order is year-month-day when the first number is no day of a month and
\* month-day-year otherwise; outside an ISO date a year 0..49 is 20xx and
\* 50..99 is 19xx; the month must be 1..12 and the day 1..31
DayWrite(day, month, iso, tz) ==
    LET c == [k \in 1..3 |-> IF k <= Len(day) THEN day[k] ELSE 1]
        date == IF month = 0
                THEN IF iso \/ ~IsDay(c[1])
                     THEN [y |-> c[1], m |-> c[2], d |-> c[3]]
                     ELSE [y |-> c[3], m |-> c[1], d |-> c[2]]
                ELSE IF ~IsDay(c[1])
                     THEN [y |-> c[1], m |-> month, d |-> c[2]]
                     ELSE [y |-> c[2], m |-> month, d |-> c[1]]
        year == IF ~iso /\ date.y \in 0..49 THEN date.y + 2000
                ELSE IF ~iso /\ date.y \in 50..99 THEN date.y + 1900
                ELSE date.y
    IN  IF day = << >> \/ ~IsMonth(date.m) \/ ~IsDay(date.d) THEN InvalidDate
        ELSE [valid |-> TRUE,
              time |-> 24 * MakeDay(year, date.m - 1, date.d) - (IF iso THEN 0 ELSE tz)]

\* new Date(s) in a process whose local time is tz hours ahead of UTC
newDate(s, tz) ==
    LET toks == DateTokens(s, 1)
        es5 == ParseES5DateTime(toks)
        legacy == LegacyParse(toks, es5.next, es5.day, 0, es5.day # << >>)
    IN  IF ~legacy.ok THEN InvalidDate
        ELSE DayWrite(legacy.day, legacy.month, es5.iso, tz)

(***************************************************************************)
(* The date patterns.  Each is three fields with one separator character   *)
(* between them and a word boundary on either side; the first match is     *)
(* the leftmost one, with each field as long as it can be.                 *)
(***************************************************************************)
\* \b before position p
WordBoundary(s, p) ==
    LET IsWordChar(k) == k \in 1..Len(s) /\ s[k] \in Digits \cup Letters \cup {"_"}
    IN  IsWordChar(p - 1) # IsWordChar(p)

\* /\b(\d{1,2})[\/.\-](\d{1,2})[\/.\-](\d{2,4})\b/
DayFirstPattern ==
    [lead |-> << >>,
     f1 |-> [set |-> Digits, min |-> 1, max |-> 2], s1 |-> {"/", ".", "-"},
     f2 |-> [set |-> Digits, min |-> 1, max |-> 2], s2 |-> {"/", ".", "-"},
     f3 |-> [set |-> Digits, min |-> 2, max |-> 4]]

\* /\b(\d{1,2})[ \-/.]([A-Za-z]{3,9})[ \-/.](\d{2,4})\b/
MonthNamePattern ==
    [lead |-> << >>,
     f1 |-> [set |-> Digits, min |-> 1, max |-> 2], s1 |-> {" ", "-", "/", "."},
     f2 |-> [set |-> Letters, min |-> 3, max |-> 9], s2 |-> {" ", "-", "/", "."},
     f3 |-> [set |-> Digits, min |-> 2, max |-> 4]]

\* /\b(20\d{2})[\/.\-](\d{1,2})[\/.\-](\d{1,2})\b/
YearFirstPattern ==
    [lead |-> <<"2", "0">>,
     f1 |-> [set |-> Digits, min |-> 4, max |-> 4], s1 |-> {"/", ".", "-"},
     f2 |-> [set |-> Digits, min |-> 1, max |-> 2], s2 |-> {"/", ".", "-"},
     f3 |-> [set |-> Digits, min |-> 1, max |-> 2]]

\* the pattern matches at position p with fields of a, b and c characters
MatchesAt(s, pat, p, a, b, c) ==
    LET q == p + a
        r == q + 1 + b
        e == r + 1 + c
    IN  /\ e - 1 <= Len(s)
        /\ WordBoundary(s, p)
        /\ \A k \in p..(q - 1) : s[k] \in pat.f1.set
        /\ SubSeq(s, p, p + Len(pat.lead) - 1) = pat.lead
        /\ s[q] \in pat.s1
        /\ \A k \in (q + 1)..(r - 1) : s[k] \in pat.f2.set
        /\ s[r] \in pat.s2
        /\ \A k \in (r + 1)..(e - 1) : s[k] \in pat.f3.set
        /\ WordBoundary(s, e)

\* every place and every choice of field lengths at which the pattern matches
Candidates(s, pat) ==
    { x \in [p : 1..Len(s), a : (pat.f1.min)..(pat.f1.max),
             b : (pat.f2.min)..(pat.f2.max), c : (pat.f3.min)..(pat.f3.max)] :
        MatchesAt(s, pat, x.p, x.a, x.b, x.c) }

\* s.match(re) / re.exec(s) from the start of s: the first match
Match(s, pat) ==
    LET cands == Candidates(s, pat)
        Before(x, y) ==
            \/ x.p < y.p
            \/ x.p = y.p /\ x.a > y.a
            \/ x.p = y.p /\ x.a = y.a /\ x.b > y.b
            \/ x.p = y.p /\ x.a = y.a /\ x.b = y.b /\ x.c >= y.c
        m == CHOOSE x \in cands : \A y \in cands : Before(x, y)
    IN  IF cands = {}
        THEN [found |-> FALSE, at |-> 0, all |-> << >>, g1 |-> << >>, g2 |-> << >>, g3 |-> << >>]
        ELSE [found |-> TRUE, at |-> m.p,
              all |-> SubSeq(s, m.p, m.p + m.a + m.b + m.c + 1),
              g1 |-> SubSeq(s, m.p, m.p + m.a - 1),
              g2 |-> SubSeq(s, m.p + m.a + 1, m.p + m.a + m.b),
              g3 |-> SubSeq(s, m.p + m.a + m.b + 2, m.p + m.a + m.b + m.c + 1)]

\* monthMap[w]: 0 stands for undefined
monthMap(w) ==
    CASE w \in {<<"j", "a", "n">>, <<"j", "a", "n", "u", "a", "r", "y">>} -> 1
      [] w \in {<<"f", "e", "b">>, <<"f", "e", "b", "r", "u", "a", "r", "y">>} -> 2
      [] w \in {<<"m", "a", "r">>, <<"m", "a", "r", "c", "h">>} -> 3
      [] w \in {<<"a", "p", "r">>, <<"a", "p", "r", "i", "l">>} -> 4
      [] w = <<"m", "a", "y">> -> 5
      [] w \in {<<"j", "u", "n">>, <<"j", "u", "n", "e">>} -> 6
      [] w \in {<<"j", "u", "l">>, <<"j", "u", "l", "y">>} -> 7
      [] w \in {<<"a", "u", "g">>, <<"a", "u", "g", "u", "s", "t">>} -> 8
      [] w \in {<<"s", "e", "p">>, <<"s", "e", "p", "t">>, <<"s", "e", "p", "t", "e", "m", "b", "e", "r">>} -> 9
      [] w \in {<<"o", "c", "t">>, <<"o", "c", "t", "o", "b", "e", "r">>} -> 10
      [] w \in {<<"n", "o", "v">>, <<"n", "o", "v", "e", "m", "b", "e", "r">>} -> 11
      [] w \in {<<"d", "e", "c">>, <<"d", "e", "c", "e", "m", "b", "e", "r">>} -> 12
      [] OTHER -> 0

\* the year of a matched field: two digits are 20xx
YearOf(g) == IF Len(g) = 2 THEN parseInt(<<"2", "0">> \o g) ELSE parseInt(g)

\* normalizeDateLoose(input) in a process whose local time is tz hours ahead
\* of UTC: the direct parse, then D/M/Y, D Month Y and Y-M-D
normalizeDateLoose(input, tz) ==
    LET direct == newDate(input, tz)
        m1 == Match(input, DayFirstPattern)
        m2 == Match(input, MonthNamePattern)
        m3 == Match(input, YearFirstPattern)
        mon == monthMap(toLowerCase(m2.g2))
    IN  IF input = << >> THEN << >>
        ELSE IF direct.valid THEN ymd(direct)
        ELSE IF m1.found /\ IsMonth(parseInt(m1.g2)) /\ IsDay(parseInt(m1.g1))
        THEN ymd(DateUTC(YearOf(m1.g3), parseInt(m1.g2) - 1, parseInt(m1.g1)))
        ELSE IF m2.found /\ mon # 0 /\ IsDay(parseInt(m2.g1))
        THEN ymd(DateUTC(YearOf(m2.g3), mon - 1, parseInt(m2.g1)))
        ELSE IF m3.found
        THEN ymd(DateUTC(parseInt(m3.g1), parseInt(m3.g2) - 1, parseInt(m3.g3)))
        ELSE << >>

\* extractFirstDateFromText(text): for each pattern in turn, its first match
\* in the text, normalised; the first result that is not empty
extractFirstDateFromText(text, tz) ==
    LET Try(pat) == LET m == Match(text, pat)
                    IN  IF m.found THEN normalizeDateLoose(m.all, tz) ELSE << >>
    IN  IF text = << >> THEN << >>
        ELSE IF Try(DayFirstPattern) # << >> THEN Try(DayFirstPattern)
        ELSE IF Try(MonthNamePattern) # << >> THEN Try(MonthNamePattern)
        ELSE Try(YearFirstPattern)

RECURSIVE Pow10(_)
Pow10(n) == IF n = 0 THEN 1 ELSE 10 * Pow10(n - 1)

\* n.toFixed(2): the nearest hundredth, with the sign of a value below zero
toFixed2(n) ==
    LET unit == Pow10(Max(n.scale - 2, 0))
        cents == IF n.scale <= 2 THEN n.mant * Pow10(2 - n.scale)
                 ELSE (n.mant \div unit) + (IF 2 * (n.mant % unit) >= unit THEN 1 ELSE 0)
    IN  (IF n.neg /\ n.mant # 0 THEN <<"-">> ELSE << >>)
            \o Decimal(cents \div 100) \o <<".">> \o PadStart(Decimal(cents % 100), 2)

\* normMoney(s): keep digits, points, commas and minus signs, turn the first
\* comma into a point, convert; a finite number with two decimals, or ""
normMoney(s) ==
    LET kept == SelectSeq(s, LAMBDA c : c \in Digits \cup {".", ",", "-"})
        comma == CHOOSE j \in 1..Len(kept) :
                    kept[j] = "," /\ \A i \in 1..(j - 1) : kept[i] # ","
        cleaned == IF \E k \in 1..Len(kept) : kept[k] = ","
                   THEN [kept EXCEPT ![comma] = "."] ELSE kept
        n == Number(cleaned)
    IN  IF s = << >> THEN << >>
        ELSE IF n.nan THEN << >>
        ELSE toFixed2(n)

(***************************************************************************)
(* Upstream responses.  A body is known by what the handlers look at: is   *)
(* it JSON, does it hold the reference the step expects (contacts[0].url,  *)
(* contact.url, user.url, bill.url, expense.url), how long is it.          *)
(***************************************************************************)
\* length of a short upstream body
SmallLen == 20

\* the reference the upstream hands out to request r at step st
RefOf(r, st) ==
    r * 10 + (CASE st = "contact_search" -> 1
                [] st = "contact_create" -> 2
                [] st = "user_lookup" -> 3
                [] st = "bill_create" -> 4
                [] st = "expense_create" -> 5
                [] OTHER -> 6)

EmptyBody == [kind |-> "empty", ref |-> NoRef, len |-> 0]

\* every response the handlers tell apart, or (in the modes that vary the
\* request bodies or overlap two requests) JSON bodies only
FreeUpstream == mode = "single"

\* two requests, overlapping or one after the other, meet an upstream that
\* answers 200 with the reference asked for, or 401
TokensOnly == mode \in {"concurrent", "sequential"}

\* the accounting service as a store of contacts: a contact is kept under
\* the name submitted when it was created, and a search is answered with a
\* contact whose name equals the query, if there is one
SuccessBodies(r, st) ==
    IF mode = "sequential" /\ st = "contact_search"
    THEN LET created == { e \in UNION { { log[q][i] : i \in 1..Len(log[q]) } : q \in Reqs } :
                            e.op = "api" /\ e.step = "contact_create" /\ Ok(e.status) }
             found == { e.got : e \in { c \in created : c.payload.name = Last(log[r]).payload.query } }
         IN  { [kind |-> "json", ref |-> f, len |-> SmallLen] :
                 f \in IF found = {} THEN {NoRef} ELSE found }
    ELSE
    { [kind |-> "json", ref |-> RefOf(r, st), len |-> SmallLen] }
    \cup (IF TokensOnly THEN {}
          ELSE { [kind |-> "json", ref |-> NoRef, len |-> SmallLen] })
    \cup (IF FreeUpstream
          THEN { [kind |-> "text", ref |-> NoRef, len |-> SmallLen], EmptyBody }
          ELSE {})

FailBodies ==
    { [kind |-> k, ref |-> NoRef, len |-> l] :
        k \in IF FreeUpstream THEN {"json", "text"} ELSE {"json"},
        l \in IF FreeUpstream THEN {SmallLen, MaxBodyLen} ELSE {SmallLen} }

Bodies(r, st, s) ==
    CASE Ok(s) -> SuccessBodies(r, st)
      [] TokensOnly /\ s # 401 -> {}
      [] OTHER -> FailBodies

\* the number of the last access token the token endpoint issues while two
\* requests overlap (the first one is in place at the start)
MaxIssued == 3

\* the access tokens the token endpoint may issue next
NextAccess ==
    IF TokensOnly /\ issuedAccess >= MaxIssued THEN {} ELSE {issuedAccess + 1}

\* responses of the token endpoint: a failure, a success that is not JSON,
\* or a JSON success with or without access_token and refresh_token
TokenResponses ==
    { [status |-> 400, kind |-> k, access |-> NoToken, refresh |-> NoToken] :
        k \in IF FreeUpstream THEN {"json", "text"} ELSE {"json"} }
    \cup { [status |-> 200, kind |-> "text", access |-> NoToken, refresh |-> NoToken] :
             k \in IF FreeUpstream THEN {"text"} ELSE {} }
    \cup { [status |-> 200, kind |-> "json", access |-> a, refresh |-> f] :
             a \in (IF TokensOnly THEN {} ELSE {NoToken}) \cup NextAccess,
             f \in IF FreeUpstream THEN {NoToken, issuedRefresh + 1}
                   ELSE {issuedRefresh + 1} }

(***************************************************************************)
(* Text.  A string is known by its length, by the status code printed in   *)
(* it (0 = none), by the number of characters that precede the upstream    *)
(* body in it, and by the body it quotes.                                  *)
(***************************************************************************)
NoText == [prefix |-> 0, status |-> 0, body |-> EmptyBody, len |-> 0]

\* the string cText / bText / aText itself
TextOf(b) == [prefix |-> 0, status |-> 0, body |-> b, len |-> b.len]

\* "https://api.freeagent.com/v2" + "/attachments" [+ ".json"]
UrlLen(att) == 28 + 12 + (IF att > 2 THEN 5 ELSE 0)

\* `Tried ${url} -> ${resUp.status}: ${txt}`
Tried(att, s, b) ==
    [prefix |-> 6 + UrlLen(att) + 3 + 3 + 2, status |-> s, body |-> b,
     len |-> 6 + UrlLen(att) + 3 + 3 + 2 + b.len]

\* String.prototype.slice(0, n)
Slice(t, n) ==
    [prefix |-> Min(t.prefix, n),
     status |-> IF t.prefix - 2 <= n THEN t.status ELSE 0,
     body |-> t.body,
     len |-> Min(t.len, n)]

\* number of characters of the quoted body that the text shows
BodyShown(t) == t.len - t.prefix

\* the length the details of fa-upload are cut to
DetailLimit == 2000

\* the response to the caller: HTTP status, the flag of the JSON payload
\* ("success" for success:true, "ok" for ok:true, "error"), the error
\* message with the upstream status printed in it (0 = none), the details
NoResp == [status |-> 0, flag |-> "", error |-> "", errStatus |-> 0,
           hasDetails |-> FALSE, details |-> NoText]

Success == [status |-> 200, flag |-> "success", error |-> "", errStatus |-> 0,
            hasDetails |-> FALSE, details |-> NoText]

Failure(code, msg) ==
    [status |-> code, flag |-> "error", error |-> msg, errStatus |-> 0,
     hasDetails |-> FALSE, details |-> NoText]

FailureWith(code, msg, t) ==
    [status |-> code, flag |-> "error", error |-> msg, errStatus |-> 0,
     hasDetails |-> TRUE, details |-> t]

\* catch (e) { return json({ error: e.message }, 500) }
Caught(e) ==
    [status |-> 500, flag |-> "error", error |-> e.error, errStatus |-> e.status,
     hasDetails |-> FALSE, details |-> NoText]

SyntaxError == [error |-> "SyntaxError", status |-> 0]

(***************************************************************************)
(* The upstream calls of each handler                                      *)
(***************************************************************************)
\* an expense route that resolves a counterparty like the bill routes
FirstStep_Resolver(h) ==
    CASE h = FaUpload -> "attach"
      [] h = Confirm -> "bill_create"
      [] OTHER -> "contact_search"

FirstStep(h) ==
    CASE h = FaUpload -> "attach"
      [] h = FaExpense -> "user_lookup"
      [] h = Confirm -> "bill_create"
      [] OTHER -> "contact_search"

Method(h, st) ==
    CASE st \in {"contact_search", "user_lookup"} -> "GET"
      [] st = "attach" /\ h = FaBillPut -> "PUT"
      [] OTHER -> "POST"

\* the address of the call: under the configured base URL, a fixed
\* address, or an address read from an upstream response
Url(h, st, att, rf) ==
    CASE st = "contact_search" -> [base |-> "config", path |-> "/contacts?", ref |-> NoRef]
      [] st = "contact_create" -> [base |-> "config", path |-> "/contacts", ref |-> NoRef]
      [] st = "user_lookup" -> [base |-> "config", path |-> "/users/me", ref |-> NoRef]
      [] st = "expense_create" -> [base |-> "config", path |-> "/expenses", ref |-> NoRef]
      [] st = "bill_create" /\ h = Confirm ->
            [base |-> "fixed", path |-> "/bills", ref |-> NoRef]
      [] st = "bill_create" -> [base |-> "config", path |-> "/bills", ref |-> NoRef]
      [] st = "attach" /\ h = FaBillPut ->
            [base |-> "response", path |-> "", ref |-> rf.record]
      [] st = "attach" /\ h = FaUpload /\ att > 2 ->
            [base |-> "config", path |-> "/attachments.json", ref |-> NoRef]
      [] OTHER -> [base |-> "config", path |-> "/attachments", ref |-> NoRef]

TokenUrl == [base |-> "tokenHost", path |-> "/v2/token_endpoint", ref |-> NoRef]

\* an attachment bound to the record that the process created last, as if
\* billUrl / expenseUrl were kept at module level
AttachedTo_Shared(h, st, rf) ==
    IF st = "attach" /\ h \in {FaBillAttach, FaBillPut, FaExpense}
    THEN Max(refs[1].record, refs[2].record)
    ELSE NoRef

\* the record the attachment of the call is bound to (attached_to, or the
\* record the PUT addresses); NoRef when the call carries none
AttachedTo(h, st, rf) ==
    IF st = "attach" /\ h \in {FaBillAttach, FaBillPut, FaExpense} THEN rf.record
    ELSE NoRef

(***************************************************************************)
(* Record Builder: what the body (or the query) of a call carries          *)
(***************************************************************************)
UnknownSupplier ==
    <<"U", "n", "k", "n", "o", "w", "n", " ", "S", "u", "p", "p", "l", "i", "e", "r">>

Supplier == <<"S", "u", "p", "p", "l", "i", "e", "r">>

MiscReceipts == <<"M", "i", "s", "c", " ", "R", "e", "c", "e", "i", "p", "t", "s">>

Receipt == <<"R", "e", "c", "e", "i", "p", "t">>

\* the longest contact name the handler that attaches by PUT searches for
NameLimit == 80

GeneralPurchases == "/categories/280"

\* the name the contact is searched by
searchName(h, i) ==
    IF h = FaBillPut THEN Take(OrElse(Trim(i.merchant), MiscReceipts), NameLimit)
    ELSE OrElse(i.merchant, UnknownSupplier)

\* contactBody: the name fields of the contact to create
contactBody(h, i) ==
    IF h = FaBillPut
    THEN [name |-> searchName(h, i), first_name |-> searchName(h, i)]
    ELSE [name |-> OrElse(i.merchant, Supplier), first_name |-> << >>]

\* val(v) of confirm for an amount: the trimmed string, or undefined
val(s) ==
    IF Trim(s) = << >> THEN Undefined
    ELSE [Number(Trim(s)) EXCEPT !.type = "string"]

\* gross: total_value / gross_value
gross(h, i) ==
    CASE h = Confirm -> val(i.total)
      [] h = FaBillPut -> Number(StripNonNumeric(i.total))
      [] OTHER -> MathAbs(Number(StripNonNumeric(i.total)))

vatRaw(i) == IF i.vat # << >> THEN Number(StripNonNumeric(i.vat)) ELSE Undefined

\* vatNum, as far as it reaches the payload: sales_tax_value is set only
\* for a number that is not NaN
vatNum(h, i) ==
    CASE h = Confirm -> val(i.vat)
      [] vatRaw(i).type # "number" \/ vatRaw(i).nan -> Undefined
      [] h = FaBillPut -> vatRaw(i)
      [] OTHER -> MathAbs(vatRaw(i))

dated_on(h, i) ==
    IF h = Confirm THEN OrElse(Trim(i.date), today)
    ELSE IF i.date # << >> /\ IsIsoDate(i.date) THEN i.date
    ELSE today

\* due_on; the empty string where the payload has no such field
due_on(h, i) == IF h \in {FaExpense, Confirm} THEN << >> ELSE dated_on(h, i)

NoPayload ==
    [party |-> NoRef, query |-> << >>, name |-> << >>, first_name |-> << >>,
     dated_on |-> << >>, due_on |-> << >>, reference |-> << >>,
     description |-> << >>, items |-> 0,
     category |-> "", gross |-> Undefined, tax |-> Undefined, data |-> ""]

\* the payload of the call of step st: party is bill.contact / expense.user,
\* name is company_name / organisation_name, reference is bill.reference,
\* description is expense.description, items is the number of bill_items,
\* data the file; an empty string stands for a field the payload lacks
Payload(h, st, i, rf) ==
    CASE st = "contact_search" -> [NoPayload EXCEPT !.query = searchName(h, i)]
      [] st = "contact_create" ->
            [NoPayload EXCEPT !.name = contactBody(h, i).name,
                              !.first_name = contactBody(h, i).first_name]
      [] st = "bill_create" /\ h = Confirm ->
            [NoPayload EXCEPT !.dated_on = dated_on(h, i),
                              !.reference = OrElse(Trim(i.merchant), Receipt),
                              !.gross = gross(h, i), !.tax = vatNum(h, i),
                              !.data = i.file_b64]
      [] st = "bill_create" ->
            [NoPayload EXCEPT !.party = rf.party,
                              !.dated_on = dated_on(h, i), !.due_on = due_on(h, i),
                              !.reference = OrElse(i.merchant, Receipt),
                              !.items = 1, !.category = GeneralPurchases,
                              !.gross = gross(h, i), !.tax = vatNum(h, i),
                              !.data = IF h = FaBillInline THEN i.file_b64 ELSE ""]
      [] st = "expense_create" ->
            [NoPayload EXCEPT !.party = rf.party,
                              !.dated_on = dated_on(h, i), !.due_on = due_on(h, i),
                              !.description = OrElse(i.merchant, Receipt),
                              !.category = GeneralPurchases,
                              !.gross = gross(h, i), !.tax = vatNum(h, i)]
      [] st = "attach" -> [NoPayload EXCEPT !.data = i.file_b64]
      [] OTHER -> NoPayload

ApiCall(r, st, att, tk) ==
    [op |-> "api", step |-> st, attempt |-> att, method |-> Method(handler[r], st),
     url |-> Url(handler[r], st, att, refs[r]),
     attachedTo |-> AttachedTo(handler[r], st, refs[r]),
     payload |-> Payload(handler[r], st, inp[r], refs[r]),
     token |-> tk, status |-> Pending, got |-> 0]

TokenCall(r, st, att, rt) ==
    [op |-> "token", step |-> st, attempt |-> att, method |-> "POST",
     url |-> TokenUrl, attachedTo |-> NoRef, payload |-> NoPayload,
     token |-> rt, status |-> Pending, got |-> 0]

\* the response completes the call issued last: its status s and what it
\* hands out (the reference in the body, or the access token issued)
Answered(l, s, g) == [l EXCEPT ![Len(l)].status = s, ![Len(l)].got = g]

(***************************************************************************)
(* Credential Manager                                                      *)
(***************************************************************************)
\* a refresh that hands the new access token to its caller without
\* storing it in process.env
refreshAccessTokenA_NoStore(tr, at, rt) ==
    IF ~Ok(tr.status) THEN
        [threw |-> TRUE, access |-> at, refresh |-> rt, ret |-> NoToken,
         e |-> [error |-> "Failed to refresh FreeAgent access token", status |-> 0]]
    ELSE IF tr.kind = "text" THEN
        [threw |-> TRUE, access |-> at, refresh |-> rt, ret |-> NoToken,
         e |-> SyntaxError]
    ELSE
        [threw |-> FALSE, access |-> at,
         refresh |-> IF tr.refresh # NoToken THEN tr.refresh ELSE rt,
         ret |-> tr.access,
         e |-> SyntaxError]

\* refreshAccessToken of fa-bill-upload, fa-expense-upload and the bill
\* handler that posts a standalone attachment: throws on a non-success
\* status, stores whatever tokens the response carries, returns
\* access_token (possibly undefined)
refreshAccessTokenA(tr, at, rt) ==
    IF ~Ok(tr.status) THEN
        [threw |-> TRUE, access |-> at, refresh |-> rt, ret |-> NoToken,
         e |-> [error |-> "Failed to refresh FreeAgent access token", status |-> 0]]
    ELSE IF tr.kind = "text" THEN
        [threw |-> TRUE, access |-> at, refresh |-> rt, ret |-> NoToken,
         e |-> SyntaxError]
    ELSE
        [threw |-> FALSE,
         access |-> IF tr.access # NoToken THEN tr.access ELSE at,
         refresh |-> IF tr.refresh # NoToken THEN tr.refresh ELSE rt,
         ret |-> tr.access,
         e |-> SyntaxError]

\* a refresh that stores data.access_token before it looks at the status
refreshAccessTokenB_StoreFirst(tr, at, rt) ==
    IF tr.kind = "text" THEN
        [threw |-> TRUE, access |-> at, refresh |-> rt, ret |-> NoToken,
         e |-> SyntaxError]
    ELSE IF ~Ok(tr.status) \/ tr.access = NoToken THEN
        [threw |-> TRUE, access |-> tr.access, refresh |-> rt, ret |-> NoToken,
         e |-> [error |-> "Failed to refresh FreeAgent token", status |-> tr.status]]
    ELSE
        [threw |-> FALSE, access |-> tr.access, refresh |-> rt, ret |-> tr.access,
         e |-> SyntaxError]

\* refreshAccessToken of fa-upload and of the bill handler that attaches by
\* PUT: throws on a non-success status or a missing access_token, stores
\* the access token only
refreshAccessTokenB(tr, at, rt) ==
    IF tr.kind = "text" THEN
        [threw |-> TRUE, access |-> at, refresh |-> rt, ret |-> NoToken,
         e |-> SyntaxError]
    ELSE IF ~Ok(tr.status) \/ tr.access = NoToken THEN
        [threw |-> TRUE, access |-> at, refresh |-> rt, ret |-> NoToken,
         e |-> [error |-> "Failed to refresh FreeAgent token", status |-> tr.status]]
    ELSE
        [threw |-> FALSE, access |-> tr.access, refresh |-> rt, ret |-> tr.access,
         e |-> SyntaxError]

refreshAccessToken(h, tr, at, rt) ==
    IF h \in {FaUpload, FaBillPut} THEN refreshAccessTokenB(tr, at, rt)
    ELSE refreshAccessTokenA(tr, at, rt)

(***************************************************************************)
(* The handlers (POST) after a logical call has returned status s, body b  *)
(***************************************************************************)
Reply(r, x) ==
    /\ resp' = [resp EXCEPT ![r] = x]
    /\ pc' = [pc EXCEPT ![r] = "done"]
    /\ UNCHANGED <<step, attempt, refs, lastText>>

Goto(r, st, rf) ==
    /\ pc' = [pc EXCEPT ![r] = "call"]
    /\ step' = [step EXCEPT ![r] = st]
    /\ refs' = [refs EXCEPT ![r] = rf]
    /\ UNCHANGED <<attempt, resp, lastText>>

\* the error that names the step whose response was not ok
StepError(h, st) ==
    CASE st = "contact_search" /\ h = FaBillPut -> "Contact search failed"
      [] st = "contact_search" -> "Contact lookup failed"
      [] st = "contact_create" -> "Create contact failed"
      [] st = "user_lookup" -> "User lookup failed"
      [] st = "bill_create" /\ h = Confirm -> "FreeAgent API error"
      [] st = "bill_create" -> "Create bill failed"
      [] st = "expense_create" -> "Create expense failed"
      [] st = "attach" /\ h = FaUpload -> "Upload failed"
      [] OTHER -> "Attach file failed"

\* the error for an ok response without the reference the step needs
MissingRefError(h, st) ==
    CASE st = "contact_create" /\ h = FaBillPut -> "No contact URL returned"
      [] st = "contact_create" -> "No contact URL in response"
      [] st = "user_lookup" -> "No user URL in response"
      [] st = "bill_create" /\ h = FaBillPut -> "No bill URL returned"
      [] st = "bill_create" -> "Bill created but no URL returned"
      [] OTHER -> "Expense created but no URL returned"

\* details without the cut
UploadDetails_Whole(t) == t

\* details: lastText.slice(0, 2000)
UploadDetails(t) == Slice(t, DetailLimit)

\* a contact search whose failure is not looked at
StepFailed_IgnoreSearch(h, st, s) == ~Ok(s) /\ st # "contact_search"

\* an attachment call whose failure is not looked at
StepFailed_IgnoreAttach(h, st, s) == ~Ok(s) /\ st # "attach"

\* if (!xRes.ok) return NextResponse.json({ error, details }, { status: 500 })
StepFailed(h, st, s) == ~Ok(s)

\* a bill handler that attaches in a call of its own after an inline bill
InlineAttachment_None(h) == FALSE

\* the handler whose bill payload carries the attachment itself
InlineAttachment(h) == h = FaBillInline

\* a third candidate url in the upload loop
NumAttempts_ThreeUrls == 3 * 2

\* urls x [fdFile, fdAttachment]
NumAttempts == 2 * 2

\* a loop that does not return on the first ok response
POST_FaUpload_KeepTrying(r, s, b) ==
    IF attempt[r] < NumAttempts
    THEN /\ lastText' = [lastText EXCEPT ![r] = Tried(attempt[r], s, b)]
         /\ attempt' = [attempt EXCEPT ![r] = @ + 1]
         /\ pc' = [pc EXCEPT ![r] = "call"]
         /\ UNCHANGED <<step, refs, resp>>
    ELSE IF Ok(s) THEN Reply(r, Success)
    ELSE /\ lastText' = [lastText EXCEPT ![r] = Tried(attempt[r], s, b)]
         /\ resp' = [resp EXCEPT ![r] =
                FailureWith(500, StepError(FaUpload, "attach"),
                            UploadDetails(Tried(attempt[r], s, b)))]
         /\ pc' = [pc EXCEPT ![r] = "done"]
         /\ UNCHANGED <<step, attempt, refs>>

\* fa-upload: the loop over the (url, body) pairs
POST_FaUpload(r, s, b) ==
    IF Ok(s) THEN Reply(r, Success)
    ELSE
        /\ lastText' = [lastText EXCEPT ![r] = Tried(attempt[r], s, b)]
        /\ IF attempt[r] < NumAttempts
           THEN /\ attempt' = [attempt EXCEPT ![r] = @ + 1]
                /\ pc' = [pc EXCEPT ![r] = "call"]
                /\ UNCHANGED <<step, refs, resp>>
           ELSE /\ resp' = [resp EXCEPT ![r] =
                      FailureWith(500, StepError(FaUpload, "attach"),
                                  UploadDetails(Tried(attempt[r], s, b)))]
                /\ pc' = [pc EXCEPT ![r] = "done"]
                /\ UNCHANGED <<step, attempt, refs>>

\* a resolver that creates a contact whatever the search found
Matched_Never(b) == FALSE

\* contactUrl after the search: the body holds the url of a matching
\* contact (contacts[0].url, or the url of the contact found by name)
Matched(b) == b.ref # NoRef

\* the three bill handlers: contact (find / create), bill, attachment
POST_Bill(r, s, b) ==
    LET h == handler[r]
        st == step[r]
    IN  IF StepFailed(h, st, s) THEN Reply(r, FailureWith(500, StepError(h, st), TextOf(b)))
        ELSE IF b.kind = "text" THEN Reply(r, Caught(SyntaxError))
        ELSE CASE st = "contact_search" ->
                    IF Matched(b)
                    THEN Goto(r, "bill_create", [refs[r] EXCEPT !.party = b.ref])
                    ELSE Goto(r, "contact_create", refs[r])
               [] st = "contact_create" ->
                    IF b.ref = NoRef THEN Reply(r, Failure(500, MissingRefError(h, st)))
                    ELSE Goto(r, "bill_create", [refs[r] EXCEPT !.party = b.ref])
               [] st = "bill_create" ->
                    IF InlineAttachment(h) THEN Reply(r, Success)
                    ELSE IF b.ref = NoRef
                    THEN Reply(r, Failure(500, MissingRefError(h, st)))
                    ELSE Goto(r, "attach", [refs[r] EXCEPT !.record = b.ref])
               [] OTHER -> Reply(r, Success)

\* an expense handler that undoes the expense when the attachment fails
POST_Expense_Rollback(r, s, b) ==
    LET h == handler[r]
        st == step[r]
    IN  IF StepFailed(h, st, s) /\ st = "attach" THEN Goto(r, "rollback", refs[r])
        ELSE IF StepFailed(h, st, s)
        THEN Reply(r, FailureWith(500, StepError(h, st), TextOf(b)))
        ELSE IF b.kind = "text" THEN Reply(r, Caught(SyntaxError))
        ELSE CASE st = "user_lookup" ->
                    IF b.ref = NoRef THEN Reply(r, Failure(500, MissingRefError(h, st)))
                    ELSE Goto(r, "expense_create", [refs[r] EXCEPT !.party = b.ref])
               [] st = "expense_create" ->
                    IF b.ref = NoRef THEN Reply(r, Failure(500, MissingRefError(h, st)))
                    ELSE Goto(r, "attach", [refs[r] EXCEPT !.record = b.ref])
               [] OTHER -> Reply(r, Success)

\* fa-expense-upload: current user, expense, attachment
POST_Expense(r, s, b) ==
    LET h == handler[r]
        st == step[r]
    IN  IF StepFailed(h, st, s) THEN Reply(r, FailureWith(500, StepError(h, st), TextOf(b)))
        ELSE IF b.kind = "text" THEN Reply(r, Caught(SyntaxError))
        ELSE CASE st = "user_lookup" ->
                    IF b.ref = NoRef THEN Reply(r, Failure(500, MissingRefError(h, st)))
                    ELSE Goto(r, "expense_create", [refs[r] EXCEPT !.party = b.ref])
               [] st = "expense_create" ->
                    IF b.ref = NoRef THEN Reply(r, Failure(500, MissingRefError(h, st)))
                    ELSE Goto(r, "attach", [refs[r] EXCEPT !.record = b.ref])
               [] OTHER -> Reply(r, Success)

\* confirm: one call; the upstream status is passed on
POST_Confirm(r, s, b) ==
    IF b.kind # "json" THEN Reply(r, Caught(SyntaxError))
    ELSE IF StepFailed(Confirm, "bill_create", s)
    THEN Reply(r, FailureWith(s, StepError(Confirm, "bill_create"), TextOf(b)))
    ELSE Reply(r, [Success EXCEPT !.flag = "ok"])

POST(r, s, b) ==
    CASE handler[r] = FaUpload -> POST_FaUpload(r, s, b)
      [] handler[r] = FaExpense -> POST_Expense(r, s, b)
      [] handler[r] = Confirm -> POST_Confirm(r, s, b)
      [] OTHER -> POST_Bill(r, s, b)

(***************************************************************************)
(* Requests                                                                *)
(***************************************************************************)
\* a request body with every field filled in the way the page sends it
PlainInput ==
    [merchant |-> <<"A", "c", "m", "e">>, date |-> << >>,
     total |-> <<"1", "2", ".", "5", "0">>, vat |-> << >>, file_b64 |-> "QUJD"]

\* request bodies that differ in the fields the Record Builder reads:
\* totals and VAT amounts with a sign, a currency symbol, two points,
\* no digit; dates in and out of YYYY-MM-DD; merchant names empty, blank
\* and padded
BuildInputs ==
    { [PlainInput EXCEPT !.total = t, !.vat = v] :
        t \in { <<"1", "2", ".", "5", "0">>, <<"-", "1", "2", ".", "5", "0">>,
                <<"$", "1", "2", ".", "5", "0">>, <<"1", ".", "2", ".", "5">> },
        v \in { << >>, <<"2", ".", "0", "8">>, <<"-", "2", ".", "0", "8">>,
                <<"n", "/", "a">>, <<"2", "-", "0", "8">> } }
    \cup { [PlainInput EXCEPT !.date = d] :
             d \in { <<"2", "0", "2", "5", "-", "1", "1", "-", "0", "9">>,
                     <<"0", "9", "/", "1", "1", "/", "2", "0", "2", "5">>,
                     <<"2", "0", "2", "5", "-", "1", "1", "-", "9">> } }
    \cup { [PlainInput EXCEPT !.merchant = m] :
             m \in { << >>, <<" ">>, <<" ", "A", "c", "m", "e", " ">> } }

\* the request bodies: the fields the handlers test before any call are
\* present or missing; the fields the Record Builder reads vary when the
\* mode is "build"
Inputs ==
    IF mode = "build" THEN BuildInputs
    ELSE IF mode = "concurrent" THEN {PlainInput}
    ELSE IF mode = "sequential" THEN {PlainInput, [PlainInput EXCEPT !.merchant = << >>]}
    ELSE { [PlainInput EXCEPT !.total = t, !.file_b64 = f] :
             t \in { << >>, PlainInput.total }, f \in {"", PlainInput.file_b64} }

NoInput ==
    [merchant |-> << >>, date |-> << >>, total |-> << >>, vat |-> << >>,
     file_b64 |-> ""]

NoRefs == [party |-> NoRef, record |-> NoRef]

\* the checks a handler makes before its first upstream call; NoResp when
\* they pass
Validate(h, i, at) ==
    CASE h = Confirm ->
            IF at = NoToken THEN Failure(500, "Missing FREEAGENT_ACCESS_TOKEN")
            ELSE NoResp
      [] h = FaUpload ->
            IF i.file_b64 = "" THEN Failure(400, "Missing file_b64")
            ELSE IF at = NoToken THEN Failure(500, "Missing FREEAGENT_ACCESS_TOKEN")
            ELSE NoResp
      [] OTHER ->
            IF i.total = << >> THEN Failure(400, "Missing total")
            ELSE IF i.file_b64 = "" THEN Failure(400, "Missing file data")
            ELSE NoResp

StartAllowed(r) ==
    CASE mode \in {"single", "build"} -> r = 1
      [] mode = "sequential" -> IF r = 1 THEN TRUE ELSE pc[r - 1] = "done"
      [] OTHER -> TRUE

\* the routes that take requests: all of them, or the routes that build a
\* record when the mode varies the fields the Record Builder reads
Served ==
    CASE mode = "build" -> Handlers \ {FaUpload}
      [] mode = "concurrent" -> Handlers \ {Confirm}
      [] mode = "sequential" -> {FaBillInline, FaBillAttach, FaBillPut}
      [] OTHER -> Handlers

\* a request arrives: the handler parses it and validates it
Start(r) ==
    /\ pc[r] = "idle"
    /\ StartAllowed(r)
    /\ \E h \in Served, i \in Inputs :
        /\ handler' = [handler EXCEPT ![r] = h]
        /\ inp' = [inp EXCEPT ![r] = i]
        /\ step' = [step EXCEPT ![r] = FirstStep(h)]
        /\ attempt' = [attempt EXCEPT ![r] = IF h = FaUpload THEN 1 ELSE 0]
        /\ token' = [token EXCEPT ![r] = IF h = FaUpload THEN accessToken ELSE NoToken]
        /\ IF Validate(h, i, accessToken) = NoResp
           THEN /\ pc' = [pc EXCEPT ![r] = "call"]
                /\ UNCHANGED resp
           ELSE /\ pc' = [pc EXCEPT ![r] = "done"]
                /\ resp' = [resp EXCEPT ![r] = Validate(h, i, accessToken)]
    /\ UNCHANGED <<ocr, mode, accessToken, refreshToken, issuedAccess, issuedRefresh,
                   res, txt, lastText, refs, log, wire>>

\* the token the first send of a logical call carries: withToken and
\* confirm read process.env, fa-upload keeps its local token
TokenToSend(r) == IF handler[r] = FaUpload THEN token[r] ELSE accessToken

\* withToken, up to its first await: read the token, send
Call(r) ==
    /\ pc[r] = "call"
    /\ token' = [token EXCEPT ![r] = TokenToSend(r)]
    /\ log' = [log EXCEPT ![r] = Append(@, ApiCall(r, step[r], attempt[r], TokenToSend(r)))]
    /\ pc' = [pc EXCEPT ![r] = "wait1"]
    /\ UNCHANGED <<ocr, mode, accessToken, refreshToken, issuedAccess, issuedRefresh,
                   handler, inp, step, attempt, res, txt, lastText, refs, resp, wire>>

\* a retry that is spent once the request has refreshed
Retries_OncePerRequest(r, s) ==
    /\ s = 401
    /\ handler[r] # Confirm
    /\ \A i \in 1..Len(log[r]) : log[r][i].op # "token"

\* does the handler answer this first response with a refresh and a resend
Retries(r, s) == s = 401 /\ handler[r] # Confirm

\* a resend that keeps the token of the first send
ResendToken_Stale(r, ret) == token[r]

\* token = (await refreshAccessToken()) || ""
ResendToken(r, ret) == ret

\* withToken: the first response; on 401 the token request is sent
Recv1(r) ==
    /\ pc[r] = "wait1"
    /\ \E s \in Statuses :
       \E b \in Bodies(r, step[r], s) :
        /\ res' = [res EXCEPT ![r] = s]
        /\ txt' = [txt EXCEPT ![r] = b]
        /\ wire' = [wire EXCEPT ![r] = [status |-> s, body |-> b]]
        /\ IF Retries(r, s)
           THEN /\ log' = [log EXCEPT ![r] =
                      Append(Answered(@, s, b.ref),
                             TokenCall(r, step[r], attempt[r], refreshToken))]
                /\ pc' = [pc EXCEPT ![r] = "waitToken"]
                /\ UNCHANGED <<step, attempt, refs, resp, lastText>>
           ELSE /\ log' = [log EXCEPT ![r] = Answered(@, s, b.ref)]
                /\ POST(r, s, b)
    /\ UNCHANGED <<ocr, mode, accessToken, refreshToken, issuedAccess, issuedRefresh,
                   handler, inp, token>>

\* an upload loop that catches a failed refresh and tries the next variant
RecvToken_KeepTrying(r) ==
    /\ pc[r] = "waitToken"
    /\ \E tr \in TokenResponses :
        LET out == refreshAccessToken(handler[r], tr, accessToken, refreshToken)
            next == handler[r] = FaUpload /\ attempt[r] < NumAttempts
        IN  /\ issuedAccess' = Max(issuedAccess, tr.access)
            /\ issuedRefresh' = Max(issuedRefresh, tr.refresh)
            /\ accessToken' = out.access
            /\ refreshToken' = out.refresh
            /\ IF out.threw
               THEN /\ log' = [log EXCEPT ![r] = Answered(@, tr.status, tr.access)]
                    /\ resp' = [resp EXCEPT ![r] = IF next THEN @ ELSE Caught(out.e)]
                    /\ pc' = [pc EXCEPT ![r] = IF next THEN "call" ELSE "done"]
                    /\ attempt' = [attempt EXCEPT ![r] = IF next THEN @ + 1 ELSE @]
                    /\ UNCHANGED token
               ELSE /\ log' = [log EXCEPT ![r] =
                          Append(Answered(@, tr.status, tr.access),
                                 ApiCall(r, step[r], attempt[r], ResendToken(r, out.ret)))]
                    /\ token' = [token EXCEPT ![r] = ResendToken(r, out.ret)]
                    /\ pc' = [pc EXCEPT ![r] = "wait2"]
                    /\ UNCHANGED <<resp, attempt>>
    /\ UNCHANGED <<ocr, mode, handler, inp, step, res, txt, lastText, refs, wire>>

\* refreshAccessToken after its await, then withToken's resend
RecvToken(r) ==
    /\ pc[r] = "waitToken"
    /\ \E tr \in TokenResponses :
        LET out == refreshAccessToken(handler[r], tr, accessToken, refreshToken)
        IN  /\ issuedAccess' = Max(issuedAccess, tr.access)
            /\ issuedRefresh' = Max(issuedRefresh, tr.refresh)
            /\ accessToken' = out.access
            /\ refreshToken' = out.refresh
            /\ IF out.threw
               THEN /\ log' = [log EXCEPT ![r] = Answered(@, tr.status, tr.access)]
                    /\ resp' = [resp EXCEPT ![r] = Caught(out.e)]
                    /\ pc' = [pc EXCEPT ![r] = "done"]
                    /\ UNCHANGED token
               ELSE /\ log' = [log EXCEPT ![r] =
                          Append(Answered(@, tr.status, tr.access),
                                 ApiCall(r, step[r], attempt[r], ResendToken(r, out.ret)))]
                    /\ token' = [token EXCEPT ![r] = ResendToken(r, out.ret)]
                    /\ pc' = [pc EXCEPT ![r] = "wait2"]
                    /\ UNCHANGED resp
    /\ UNCHANGED <<ocr, mode, handler, inp, step, attempt, res, txt, lastText, refs, wire>>

\* a withToken that refreshes again on every 401
Recv2_Loop(r) ==
    /\ pc[r] = "wait2"
    /\ \E s \in Statuses :
       \E b \in Bodies(r, step[r], s) :
        /\ res' = [res EXCEPT ![r] = s]
        /\ txt' = [txt EXCEPT ![r] = b]
        /\ wire' = [wire EXCEPT ![r] = [status |-> s, body |-> b]]
        /\ IF Retries(r, s)
           THEN /\ log' = [log EXCEPT ![r] =
                      Append(Answered(@, s, b.ref),
                             TokenCall(r, step[r], attempt[r], refreshToken))]
                /\ pc' = [pc EXCEPT ![r] = "waitToken"]
                /\ UNCHANGED <<step, attempt, refs, resp, lastText>>
           ELSE /\ log' = [log EXCEPT ![r] = Answered(@, s, b.ref)]
                /\ POST(r, s, b)
    /\ UNCHANGED <<ocr, mode, accessToken, refreshToken, issuedAccess, issuedRefresh,
                   handler, inp, token>>

\* withToken: the second response is returned whatever it is
Recv2(r) ==
    /\ pc[r] = "wait2"
    /\ \E s \in Statuses :
       \E b \in Bodies(r, step[r], s) :
        /\ res' = [res EXCEPT ![r] = s]
        /\ txt' = [txt EXCEPT ![r] = b]
        /\ wire' = [wire EXCEPT ![r] = [status |-> s, body |-> b]]
        /\ log' = [log EXCEPT ![r] = Answered(@, s, b.ref)]
        /\ POST(r, s, b)
    /\ UNCHANGED <<ocr, mode, accessToken, refreshToken, issuedAccess, issuedRefresh,
                   handler, inp, token>>

(***************************************************************************)
(* The receipt analyser applies its normalisers to the fields and the      *)
(* text that the OCR service returned.                                     *)
(***************************************************************************)
\* values of a date field
DateInputs ==
    { <<"2", "0", "2", "5", "-", "1", "1", "-", "0", "9">>, <<"0", "9", "/", "1", "1", "/", "2", "0", "2", "5">>, <<"0", "9", " ", "N", "o", "v", " ", "2", "0", "2", "5">>, <<"0", "3", "/", "0", "4", "/", "2", "0", "2", "5">>,
      <<"1", "3", "/", "1", "1", "/", "2", "0", "2", "5">>, <<"3", "1", "/", "0", "2", "/", "2", "0", "2", "5">>, <<"2", "0", "2", "5", "-", "1", "3", "-", "4", "5">>, <<"2", "0", "2", "5", "-", "0", "2", "-", "3", "0">>,
      <<"3", "2", "/", "0", "1", "/", "2", "0", "2", "5">>, <<"3", "1", " ", "F", "e", "b", " ", "2", "0", "2", "5">>, <<"9", " ", "N", "o", "v", " ", "2", "0", "2", "5", " ", "p", "a", "i", "d">>, <<"3", "1", " ", "F", "e", "b", " ", "2", "0", "2", "5", " ", "p", "a", "i", "d">>,
      <<"2", "0", "2", "5", "-", "1", "1", "-", "9", " ", "p", "a", "i", "d">>, <<"p", "a", "i", "d", " ", "1", "3", "/", "1", "1", "/", "2", "0", "2", "5">>, <<"9", "-", "N", "o", "v", "-", "2", "5">>, <<"1", "3", ".", "1", "1", ".", "2", "5">>,
      <<"2", "0", "2", "5", "/", "1", "1", "/", "0", "9">>, <<"9", "9", "/", "9", "9", "/", "2", "0", "2", "5">>, <<"3", "2", " ", "N", "o", "v", " ", "2", "0", "2", "5">>, <<"f", "o", "o">>, <<"2", "0", "2", "5">>,
      <<"1", "2", ".", "5", "0">>, << >> }

\* texts of a receipt
TextInputs ==
    { <<"I", "N", "V", "O", "I", "C", "E", "_", "D", "A", "T", "E", ":", " ", "f", "o", "o">> \o <<"\n">> \o <<"T", "O", "T", "A", "L", ":", " ", "0", "9", "/", "1", "1", "/", "2", "0", "2", "5", " ", "b", "a", "r">>,
      <<"9", "9", "/", "9", "9", "/", "2", "0", "2", "5", " ", "1", "3", "/", "1", "1", "/", "2", "0", "2", "5">>, <<"T", "O", "T", "A", "L", ":", " ", "1", "2", ".", "5", "0", ".", "2", "5">> \o <<"\n">> \o <<"1", "3", "/", "1", "1", "/", "2", "0", "2", "5">>,
      <<"3", "2", " ", "N", "o", "v", " ", "2", "0", "2", "5", " ", "p", "a", "i", "d", " ", "9", " ", "N", "o", "v", " ", "2", "0", "2", "5">>, <<"2", "0", "2", "5", "-", "1", "3", "-", "4", "5", " ", "2", "0", "2", "5", "-", "1", "1", "-", "0", "9">>,
      <<"D", "A", "T", "E", " ", "1", "3", "/", "1", "1", "/", "2", "0", "2", "5">>, <<"9", " ", "N", "o", "v", " ", "2", "0", "2", "5", " ", "p", "a", "i", "d">>, <<"d", "u", "e", " ", "2", "0", "2", "5", "-", "1", "1", "-", "0", "9">>,
      <<"n", "o", " ", "d", "a", "t", "e">>, << >> }

\* values of an amount field
AmountInputs ==
    { <<"1", "2", ".", "5", "0">>, <<"-", "1", "2", ".", "5", "0">>,
      <<"-", "1", "2", ",", "0", "0">>, <<"G", "B", "P", " ", "1", "2", ".", "5", "0">>, <<"1", ",", "2", "3", "4", ".", "5", "6">>, <<"1", "2", ",", "5", "0">>,
      <<"1", ".", "2", "3", "4", ",", "5", "6">>, <<"a", "b", "c">>, <<"n", "/", "a">>, <<"1", ".", "2", ".", "3">>, <<"1", ",", "2", ",", "3">>, <<"-">>, <<"5", "-", "3">>,
      <<"0">>, <<"-", "0">>, <<"1", "2">>, <<"1", "2", ".", "3", "4", "9">>, <<"-", "0", ".", "0", "0", "1">>, <<"-", "4", " ", "G", "B", "P">>, << >> }

\* the calls of the analyser's helpers
Calls ==
    [fn : {"normalizeDateLoose"}, arg : DateInputs, tz : TimeZones,
     out : {<< >>}, done : {FALSE}]
    \cup [fn : {"extractFirstDateFromText"}, arg : TextInputs, tz : TimeZones,
          out : {<< >>}, done : {FALSE}]
    \cup [fn : {"normMoney"}, arg : AmountInputs, tz : TimeZones,
          out : {<< >>}, done : {FALSE}]

(***************************************************************************)
(* Specifications                                                          *)
(***************************************************************************)
InitWith(m) ==
    /\ mode = m
    /\ accessToken \in IF m \in {"concurrent", "sequential"} THEN {1} ELSE {NoToken, 1}
    /\ refreshToken = 1
    /\ issuedAccess = 1
    /\ issuedRefresh = 1
    /\ handler = [r \in Reqs |-> FaUpload]
    /\ inp = [r \in Reqs |-> NoInput]
    /\ pc = [r \in Reqs |-> "idle"]
    /\ step = [r \in Reqs |-> "attach"]
    /\ attempt = [r \in Reqs |-> 0]
    /\ token = [r \in Reqs |-> NoToken]
    /\ res = [r \in Reqs |-> 0]
    /\ txt = [r \in Reqs |-> EmptyBody]
    /\ lastText = [r \in Reqs |-> NoText]
    /\ refs = [r \in Reqs |-> NoRefs]
    /\ resp = [r \in Reqs |-> NoResp]
    /\ log = [r \in Reqs |-> << >>]
    /\ wire = [r \in Reqs |-> [status |-> 0, body |-> EmptyBody]]
    /\ ocr \in IF m = "analyze" THEN Calls
               ELSE {[fn |-> "none", arg |-> << >>, tz |-> 0, out |-> << >>, done |-> FALSE]}

Init == InitWith("single")

Next ==
    \E r \in Reqs :
        \/ Start(r)
        \/ Call(r)
        \/ Recv1(r)
        \/ RecvToken(r)
        \/ Recv2(r)

Spec == Init /\ [][Next]_vars

\* every upstream call returns, and the handler then runs to its next await
SpecLive ==
    /\ Init
    /\ [][Next]_vars
    /\ \A r \in Reqs : WF_vars(Call(r) \/ Recv1(r) \/ RecvToken(r) \/ Recv2(r))

\* one request whose body varies in the fields the Record Builder reads
SpecBuild == InitWith("build") /\ [][Next]_vars

\* two requests of one process, interleaved at their awaits
SpecConcurrent == InitWith("concurrent") /\ [][Next]_vars

\* two requests of one process, the second after the first has been
\* answered, against an accounting service that keeps the contacts created
SpecSequential == InitWith("sequential") /\ [][Next]_vars

Returns(out) ==
    /\ ocr' = [ocr EXCEPT !.out = out, !.done = TRUE]
    /\ UNCHANGED <<mode, accessToken, refreshToken, issuedAccess, issuedRefresh,
                   handler, inp, pc, step, attempt, token, res, txt, lastText,
                   refs, resp, log, wire>>

NormalizeDate ==
    /\ ocr.fn = "normalizeDateLoose" /\ ~ocr.done
    /\ Returns(normalizeDateLoose(ocr.arg, ocr.tz))

ExtractDate ==
    /\ ocr.fn = "extractFirstDateFromText" /\ ~ocr.done
    /\ Returns(extractFirstDateFromText(ocr.arg, ocr.tz))

NormMoney ==
    /\ ocr.fn = "normMoney" /\ ~ocr.done
    /\ Returns(normMoney(ocr.arg))

NextAnalyze == NormalizeDate \/ ExtractDate \/ NormMoney

\* one call of a normaliser of the analyser
SpecAnalyze == InitWith("analyze") /\ [][NextAnalyze]_vars

(***************************************************************************)
(* Reading the log of a request                                            *)
(***************************************************************************)
Steps == {"contact_search", "contact_create", "user_lookup", "bill_create",
          "expense_create", "attach"}

\* the calls of request r that belong to the logical call (st, a)
CallIdx(r, st, a) ==
    { i \in 1..Len(log[r]) : log[r][i].step = st /\ log[r][i].attempt = a }

ApiIdx(r) == { i \in 1..Len(log[r]) : log[r][i].op = "api" }

TokenIdx(r) == { i \in 1..Len(log[r]) : log[r][i].op = "token" }

\* entry i is a resend: the send that follows a token request
IsResend(r, i) == i \in ApiIdx(r) /\ i > 1 /\ (i - 1) \in TokenIdx(r)

IsAnswered(r, i) == log[r][i].status # Pending

(***************************************************************************)
(* C1: a logical call through withToken sends the request at most twice    *)
(* and refreshes at most once; the refresh and the second send happen only *)
(* after a first response 401; the second response is returned whatever    *)
(* its status, another 401 included, with no further retry.                *)
(***************************************************************************)
C1_AtMostOneRetry ==
    \A r \in Reqs : handler[r] \in WithTokenHandlers =>
      \A st \in Steps :
        LET l == log[r]
            I == CallIdx(r, st, 0)
        IN  /\ Cardinality(I \cap ApiIdx(r)) <= 2
            /\ Cardinality(I \cap TokenIdx(r)) <= 1
            /\ \A i \in I \cap TokenIdx(r) :
                  /\ (i - 1) \in I \cap ApiIdx(r)
                  /\ l[i - 1].status = 401
                  /\ (i - 2) \notin I
            /\ \A i \in I \cap ApiIdx(r) :
                  (i - 1) \in I =>
                     /\ (i - 1) \in TokenIdx(r)
                     /\ (i - 2) \in I
                     /\ l[i - 2].status = 401
                     /\ IsAnswered(r, i) => (i + 1) \notin I
                     /\ (IsAnswered(r, i) /\ ~Ok(l[i].status)) =>
                           /\ i = Len(l)
                           /\ pc[r] = "done"
                           /\ res[r] = l[i].status
                           /\ resp[r].error = StepError(handler[r], st)
                           /\ resp[r].details = TextOf(wire[r].body)

\* a resend answered 401 has been returned to the handler
C1_Witness ==
    \E r \in Reqs :
        /\ handler[r] \in WithTokenHandlers
        /\ \E i \in ApiIdx(r) :
              IsResend(r, i) /\ log[r][i].status = 401 /\ pc[r] = "done"

(***************************************************************************)
(* C2: when the upstream answers 401 and then 200, exactly one refresh     *)
(* call occurs, the resent request carries the access token returned by    *)
(* that refresh, and the result of the call is the 200 response, with its  *)
(* body text and the refreshed token as tokenUsed.                         *)
(***************************************************************************)
C2_RetryThenOk ==
    \A r \in Reqs : handler[r] \in WithTokenHandlers =>
      \A i \in ApiIdx(r) :
        LET l == log[r]
        IN  (IsResend(r, i) /\ l[i].status = 200) =>
              /\ l[i - 2].status = 401
              /\ Cardinality(CallIdx(r, l[i].step, 0) \cap TokenIdx(r)) = 1
              /\ l[i].token = l[i - 1].got
              /\ (i = Len(l)) =>
                    /\ res[r] = 200
                    /\ txt[r] = wire[r].body
                    /\ token[r] = l[i - 1].got
                    /\ resp[r].error # StepError(handler[r], l[i].step)

\* 401, a refresh that returned a token, 200
C2_Witness ==
    \E r \in Reqs :
        /\ handler[r] \in WithTokenHandlers
        /\ Len(log[r]) >= 3
        /\ IsResend(r, Len(log[r]))
        /\ Last(log[r]).status = 200
        /\ log[r][Len(log[r]) - 1].got # NoToken
        /\ token[r] = issuedAccess

(***************************************************************************)
(* C3: the attachment attempts are made in a fixed order and stop at the   *)
(* first HTTP success: an attempt is issued only if every attempt before   *)
(* it failed, and after a success status no further call is issued.        *)
(***************************************************************************)
AttachIdx(r) == { i \in ApiIdx(r) : log[r][i].step = "attach" }

\* the last send of attempt a
FinalOf(r, a) ==
    CHOOSE i \in AttachIdx(r) :
        /\ log[r][i].attempt = a
        /\ \A j \in AttachIdx(r) : log[r][j].attempt = a => j <= i

C3_OrderedFirstSuccess ==
    \A r \in Reqs :
        LET l == log[r]
            A == AttachIdx(r)
        IN  /\ \A i, j \in A : i < j => l[i].attempt <= l[j].attempt
            /\ \A j \in A : \A a \in 1..(l[j].attempt - 1) :
                  /\ \E i \in A : l[i].attempt = a
                  /\ FinalOf(r, a) < j
                  /\ IsAnswered(r, FinalOf(r, a))
                  /\ ~Ok(l[FinalOf(r, a)].status)
            /\ \A i \in A : (IsAnswered(r, i) /\ Ok(l[i].status)) =>
                  i = Len(l) /\ pc[r] = "done"

\* the third (url, body) pair succeeded after two failures
C3_Witness ==
    \E r \in Reqs :
        /\ handler[r] = FaUpload
        /\ resp[r] = Success
        /\ Last(log[r]).attempt = 3

(***************************************************************************)
(* C4: when every attachment attempt has failed, fa-upload answers 500     *)
(* with the status and the body of the last failed attempt, and the        *)
(* details are never longer than 2000 characters.                          *)
(***************************************************************************)
AllAttemptsFailed(r) ==
    /\ handler[r] = FaUpload
    /\ pc[r] = "done"
    /\ log[r] # << >>
    /\ Last(log[r]).op = "api"
    /\ Last(log[r]).attempt = NumAttempts
    /\ ~Ok(Last(log[r]).status)

C4_AllFailedDetails ==
    \A r \in Reqs :
        /\ handler[r] = FaUpload => resp[r].details.len <= DetailLimit
        /\ AllAttemptsFailed(r) =>
              /\ resp[r].status = 500
              /\ resp[r].flag = "error"
              /\ resp[r].hasDetails
              /\ resp[r].details.status = Last(log[r]).status
              /\ resp[r].details.body = wire[r].body
              /\ BodyShown(resp[r].details) =
                    Min(wire[r].body.len, DetailLimit - resp[r].details.prefix)

\* four failures, the last with a body longer than the limit
C4_Witness ==
    \E r \in Reqs :
        /\ AllAttemptsFailed(r)
        /\ wire[r].body.len > DetailLimit
        /\ resp[r].details.len = DetailLimit

(***************************************************************************)
(* The attachment strategies of section 4.6, as the handlers use them:     *)
(* 1 multipart field "file", 2 multipart field "attachment[file]",         *)
(* 3 standalone JSON attachment, 4 PUT on the record, 5 inline in the      *)
(* record-creation payload; 0 for a call that carries no attachment.       *)
(***************************************************************************)
Strategy(h, e) ==
    CASE e.op # "api" -> 0
      [] h = FaUpload -> IF e.attempt \in {1, 3} THEN 1 ELSE 2
      [] e.step = "attach" /\ h \in {FaBillAttach, FaExpense} -> 3
      [] e.step = "attach" /\ h = FaBillPut -> 4
      [] e.step = "bill_create" /\ h \in {FaBillInline, Confirm} -> 5
      [] OTHER -> 0

BinderIdx(r) == { i \in ApiIdx(r) : Strategy(handler[r], log[r][i]) # 0 }

\* call i got a response that ends the request: a failure status that is
\* not a first 401 about to be retried, or a failed token request
FinalFailure(r, i) ==
    /\ IsAnswered(r, i)
    /\ ~Ok(log[r][i].status)
    /\ \/ i \in TokenIdx(r)
       \/ log[r][i].status # 401
       \/ IsResend(r, i)
       \/ handler[r] = Confirm

\* the failure of call i was taken up by the retry or by the next attempt
Superseded(r, i) ==
    /\ i < Len(log[r])
    /\ \/ log[r][i].status = 401 /\ (i + 1) \in TokenIdx(r)
       \/ /\ handler[r] = FaUpload
          /\ (i + 1) \in ApiIdx(r)
          /\ log[r][i + 1].attempt = log[r][i].attempt + 1

(***************************************************************************)
(* C5 as stated: with an upstream that fails strategies 1 to 4 and         *)
(* accepts strategy 5, the binder returns success, within five calls.      *)
(***************************************************************************)
\* every response the request got is one such an upstream gives
FailsAllButInline(r) ==
    /\ \A i \in ApiIdx(r) :
          /\ IsAnswered(r, i)
          /\ Strategy(handler[r], log[r][i]) \in 1..4 => log[r][i].status = 422
          /\ Strategy(handler[r], log[r][i]) \notin 1..4 => log[r][i].status = 200
    /\ TokenIdx(r) = {}
    /\ wire[r].body.kind = "json"

C6_RefreshPerAttempt ==
    \A r \in Reqs : handler[r] = FaUpload =>
        LET l == log[r]
        IN  /\ \A a \in 1..NumAttempts :
                  /\ Cardinality(CallIdx(r, "attach", a) \cap ApiIdx(r)) <= 2
                  /\ Cardinality(CallIdx(r, "attach", a) \cap TokenIdx(r)) <= 1
            /\ \A i \in ApiIdx(r) :
                  (l[i].status = 401 /\ ~IsResend(r, i)) =>
                     /\ (i + 1) \in TokenIdx(r)
                     /\ l[i + 1].attempt = l[i].attempt
            /\ \A i \in TokenIdx(r) :
                  /\ (i - 1) \in ApiIdx(r)
                  /\ l[i - 1].status = 401
                  /\ l[i - 1].attempt = l[i].attempt
            /\ \A i \in ApiIdx(r) : IsResend(r, i) => l[i].attempt = l[i - 1].attempt

\* two attempts of one request refreshed, the first of them with success
C6_Witness ==
    \E r \in Reqs :
        /\ handler[r] = FaUpload
        /\ \E i, j \in TokenIdx(r) :
              /\ log[r][i].attempt < log[r][j].attempt
              /\ Ok(log[r][i].status)
              /\ log[r][i].got # NoToken

(***************************************************************************)
(* C7: the steps of a bill or expense request are strictly sequential and  *)
(* halt on the first failure: the record is created only after the         *)
(* counterparty (or the user) was resolved, the attachment is sent only    *)
(* after the record was created, and after a failed step no further        *)
(* upstream call is issued.                                                *)
(***************************************************************************)
ResolveSteps == {"contact_search", "contact_create", "user_lookup"}

CreateSteps == {"bill_create", "expense_create"}

\* call i returned a success status and the reference asked for
Succeeded(r, i) ==
    /\ i \in ApiIdx(r)
    /\ Ok(log[r][i].status)
    /\ log[r][i].got # NoRef

C7_SequentialHalt ==
    \A r \in Reqs : handler[r] \in WithTokenHandlers \cup {Confirm} =>
        LET l == log[r]
        IN  /\ \A i \in 1..(Len(l) - 1) : IsAnswered(r, i)
            /\ \A j \in ApiIdx(r) :
                  (l[j].step \in CreateSteps /\ handler[r] # Confirm) =>
                     \E i \in 1..(j - 1) :
                        /\ l[i].step \in ResolveSteps
                        /\ Succeeded(r, i)
                        /\ refs[r].party = l[i].got
            /\ \A j \in ApiIdx(r) :
                  l[j].step = "attach" =>
                     \E i \in 1..(j - 1) :
                        /\ l[i].step \in CreateSteps
                        /\ Succeeded(r, i)
                        /\ refs[r].record = l[i].got
            /\ \A i \in 1..Len(l) :
                  FinalFailure(r, i) =>
                     i = Len(l) /\ pc[r] = "done" /\ resp[r].flag = "error"

\* the record creation failed after the counterparty was resolved
C7_Witness ==
    \E r \in Reqs :
        /\ handler[r] \in WithTokenHandlers
        /\ pc[r] = "done"
        /\ log[r] # << >>
        /\ Last(log[r]).step \in CreateSteps
        /\ FinalFailure(r, Len(log[r]))
        /\ refs[r].party # NoRef

(***************************************************************************)
(* C8: when the attachment step fails after the record was created, the    *)
(* handler answers with an error and issues no delete, update or other     *)
(* call: the failed attachment call is the last call of the request.       *)
(***************************************************************************)
C8_NoCompensation ==
    \A r \in Reqs : handler[r] \in {FaBillAttach, FaBillPut, FaExpense} =>
        LET l == log[r]
        IN  /\ \A i \in 1..Len(l) :
                  (l[i].step = "attach" /\ FinalFailure(r, i)) =>
                     /\ i = Len(l)
                     /\ pc[r] = "done"
                     /\ resp[r].status = 500
                     /\ resp[r].flag = "error"
                     /\ refs[r].record # NoRef
            /\ \A i \in 1..Len(l) :
                  /\ l[i].step \in Steps
                  /\ l[i].method \in {"GET", "POST", "PUT"}
                  /\ l[i].method = "PUT" => (l[i].step = "attach" /\ handler[r] = FaBillPut)

\* the record exists and its attachment call has failed
C8_Witness ==
    \E r \in Reqs :
        /\ handler[r] \in {FaBillAttach, FaBillPut, FaExpense}
        /\ pc[r] = "done"
        /\ log[r] # << >>
        /\ Last(log[r]).step = "attach"
        /\ FinalFailure(r, Len(log[r]))
        /\ refs[r].record # NoRef

(***************************************************************************)
(* C9 as stated: every upstream failure reaches the caller as              *)
(* {error, details} that names the failed step and carries the upstream    *)
(* status code and the upstream body cut to a bounded length.              *)
(***************************************************************************)
C9_Original ==
    \A r \in Reqs :
        (pc[r] = "done" /\ log[r] # << >> /\ FinalFailure(r, Len(log[r]))) =>
            /\ resp[r].flag = "error"
            /\ resp[r].hasDetails
            /\ resp[r].details.len <= DetailLimit
            /\ \/ resp[r].details.status = Last(log[r]).status
               \/ resp[r].errStatus = Last(log[r]).status
               \/ resp[r].status = Last(log[r]).status

CreateRecordHandlers == {FaBillAttach, FaBillPut, FaBillInline, FaExpense, Confirm}

Started(r) == pc[r] # "idle"

\* the request was answered by the validation, before any upstream call
RejectedAtOnce(r, msg) ==
    /\ pc[r] = "done"
    /\ resp[r].status = 400
    /\ resp[r].flag = "error"
    /\ resp[r].error = msg
    /\ log[r] = << >>

(***************************************************************************)
(* C11: a create-record request whose total is missing (absent or empty)   *)
(* is answered at once with HTTP 400 and { error: "Missing total" }, and   *)
(* no network call is made for it: no call to the accounting API, no       *)
(* token refresh.                                                          *)
(***************************************************************************)
C11_Original ==
    \A r \in Reqs :
        (Started(r) /\ handler[r] \in CreateRecordHandlers /\ inp[r].total = << >>)
            => RejectedAtOnce(r, "Missing total")

(***************************************************************************)
(* C12: a create-record or attachment-upload request whose file bytes are  *)
(* missing is answered with HTTP 400 before any network call is made.      *)
(***************************************************************************)
C12_Original ==
    \A r \in Reqs :
        (Started(r) /\ inp[r].file_b64 = "")
            => /\ pc[r] = "done"
               /\ resp[r].status = 400
               /\ resp[r].flag = "error"
               /\ log[r] = << >>

(***************************************************************************)
(* Reading the Counterparty Resolver                                       *)
(***************************************************************************)
\* the routes with a Counterparty Resolver
BillHandlers == {FaBillAttach, FaBillPut, FaBillInline}

\* the sends of request r that belong to step st
SendsOf(r, st) == CallIdx(r, st, 0) \cap ApiIdx(r)

ContactPaths == {"/contacts?", "/contacts"}

\* send i was answered with a success status
AnsweredOk(r, i) == IsAnswered(r, i) /\ Ok(log[r][i].status)

(***************************************************************************)
(* C13: within one create-bill request the Counterparty Resolver issues    *)
(* exactly one search (sent once, or twice when the first send is answered *)
(* 401); a create-contact call is issued if and only if the search         *)
(* succeeded and yielded no matching contact; when a match is found, its   *)
(* reference is the one placed in the bill payload; no call ever updates   *)
(* or deletes a contact.                                                   *)
(***************************************************************************)
C13_OneSearch ==
    \A r \in Reqs : (Started(r) /\ handler[r] \in BillHandlers) =>
        LET l == log[r]
            S == SendsOf(r, "contact_search")
            Cr == SendsOf(r, "contact_create")
            Bl == SendsOf(r, "bill_create")
        IN  /\ S \subseteq {1, 3}
            /\ 3 \in S => (1 \in S /\ IsResend(r, 3))
            /\ l # << >> => 1 \in S
            /\ (pc[r] = "done" /\ resp[r].status # 400) => 1 \in S
            /\ Cr # {} =>
                  \E i \in S : /\ AnsweredOk(r, i)
                                /\ l[i].got = NoRef
                                /\ \A j \in Cr : j > i
            /\ \A i \in S : (AnsweredOk(r, i) /\ l[i].got = NoRef) =>
                  IF i < Len(l) THEN (i + 1) \in Cr
                  ELSE \/ pc[r] = "call" /\ step[r] = "contact_create"
                       \/ /\ wire[r].body.kind = "text"
                          /\ pc[r] = "done"
                          /\ resp[r] = Caught(SyntaxError)
            /\ \A i \in S : (AnsweredOk(r, i) /\ l[i].got # NoRef) =>
                  /\ Cr = {}
                  /\ \A j \in Bl : l[j].payload.party = l[i].got
                  /\ i = Len(l) => (pc[r] = "call" /\ step[r] = "bill_create")
            /\ \A i \in Cr, j \in Bl : AnsweredOk(r, i) => l[j].payload.party = l[i].got
            /\ \A i \in ApiIdx(r) :
                  l[i].url.path \in ContactPaths =>
                     /\ l[i].method \in {"GET", "POST"}
                     /\ l[i].method = "GET" <=> i \in S
                     /\ l[i].method = "POST" <=> i \in Cr
            /\ \A i \in ApiIdx(r) :
                  l[i].method \notin {"GET", "POST"} =>
                     /\ l[i].step = "attach"
                     /\ l[i].url.base = "response"
                     /\ \E j \in Bl : l[j].got = l[i].url.ref /\ l[i].url.ref # NoRef

\* the search was answered 401, resent, and found a contact; the bill
\* call that carries it has been issued and no contact was created
C13_Witness ==
    \E r \in Reqs :
        /\ handler[r] \in BillHandlers
        /\ SendsOf(r, "contact_search") = {1, 3}
        /\ log[r][3].got # NoRef
        /\ SendsOf(r, "contact_create") = {}
        /\ \E j \in SendsOf(r, "bill_create") : log[r][j].payload.party = log[r][3].got

(***************************************************************************)
(* C14: whenever an upstream call succeeds but the reference expected from *)
(* it is absent from its response (the contact URL after contact           *)
(* creation, the user URL after user lookup, the record URL after record   *)
(* creation), the request fails with an error response and is never        *)
(* reported as success.                                                    *)
(***************************************************************************)
ReferenceSteps == {"contact_create", "user_lookup", "bill_create", "expense_create"}

C14_Original ==
    \A r \in Reqs : handler[r] \in WithTokenHandlers =>
        \A i \in ApiIdx(r) :
            (log[r][i].step \in ReferenceSteps /\ AnsweredOk(r, i) /\ log[r][i].got = NoRef)
                => /\ pc[r] = "done"
                   /\ resp[r].flag = "error"
                   /\ resp[r].status >= 400

(***************************************************************************)
(* C15: when the resolver creates a counterparty, the create request       *)
(* carries the searched name as both display name fields (organisation     *)
(* name and first name): the name used for the search is the name used     *)
(* for the creation.                                                       *)
(***************************************************************************)
C15_Original ==
    \A r \in Reqs : handler[r] \in BillHandlers =>
        \A i \in SendsOf(r, "contact_search"), j \in SendsOf(r, "contact_create") :
            /\ log[r][j].payload.name = log[r][i].payload.query
            /\ log[r][j].payload.first_name = log[r][i].payload.query

(***************************************************************************)
(* C16: refresh() fails with an error that carries the upstream status     *)
(* whenever the token endpoint returns a non-success status or a success   *)
(* without an access token; it never completes normally without a new      *)
(* access token, so nothing is sent after such an answer.                  *)
(***************************************************************************)
C16_Original ==
    \A r \in Reqs : handler[r] \in WithTokenHandlers =>
        \A i \in TokenIdx(r) :
            LET l == log[r]
            IN  (IsAnswered(r, i) /\ (~Ok(l[i].status) \/ l[i].got = NoToken))
                    => /\ i = Len(l)
                       /\ pc[r] = "done"
                       /\ resp[r].flag = "error"
                       /\ resp[r].errStatus = l[i].status

(***************************************************************************)
(* C17: on a successful refresh the process-wide access token is           *)
(* overwritten with the new one, the stored refresh token is overwritten   *)
(* too whenever the response carries a rotated refresh token, and the new  *)
(* access token is returned (it is the token of the resend); so the next   *)
(* refresh always presents the most recently issued refresh token.         *)
(***************************************************************************)
C17_Original ==
    \A r \in Reqs :
        LET l == log[r]
        IN  \A i \in TokenIdx(r) :
              /\ (i = Len(l) /\ ~IsAnswered(r, i)) => l[i].token = issuedRefresh
              /\ (AnsweredOk(r, i) /\ l[i].got # NoToken) =>
                    /\ (i + 1) \in ApiIdx(r)
                    /\ l[i + 1].token = l[i].got
                    /\ (\A j \in TokenIdx(r) : j <= i) =>
                          (accessToken = l[i].got /\ refreshToken = issuedRefresh)

(***************************************************************************)
(* Reading the refreshes of overlapping requests.  The token endpoint      *)
(* numbers the access tokens in the order it issues them, and a token is   *)
(* issued when its response is received, so the refresh that completed     *)
(* last is the one that handed out the highest token.                      *)
(***************************************************************************)
\* the refreshes that completed with a new access token
Refreshed ==
    UNION { { <<r, i>> : i \in { k \in TokenIdx(r) :
                                   AnsweredOk(r, k) /\ log[r][k].got # NoToken } } :
            r \in Reqs }

LastRefreshed == CHOOSE x \in Refreshed :
                    \A y \in Refreshed : log[y[1]][y[2]].got <= log[x[1]][x[2]].got

(***************************************************************************)
(* C18: known race.  With two requests in flight and a stale token, a      *)
(* state is reachable in which both requests detected 401 and both         *)
(* triggered a refresh, and the access token left in process-wide state    *)
(* is always the one written by the refresh that completed last, the       *)
(* other's having been silently overwritten.                               *)
(***************************************************************************)
C18_LastRefreshWins ==
    Refreshed # {} =>
        accessToken = log[LastRefreshed[1]][LastRefreshed[2]].got

\* both requests sent their first call with the same stale token, both were
\* answered 401, both refreshed, and the token of the first refresh is gone
C18_Witness ==
    /\ \A r \in Reqs :
          /\ Len(log[r]) >= 3
          /\ log[r][1].status = 401
          /\ log[r][1].token = log[1][1].token
          /\ <<r, 2>> \in Refreshed
    /\ log[1][2].got # log[2][2].got
    /\ \E r \in Reqs : accessToken = log[r][2].got
    /\ \E r \in Reqs : accessToken # log[r][2].got /\ log[r][3].token = log[r][2].got

(***************************************************************************)
(* Reading the record payload                                              *)
(***************************************************************************)
\* the sends of request r that create the record
RecordSends(r) == SendsOf(r, "bill_create") \cup SendsOf(r, "expense_create")

\* the amount is there and reads as a number that is zero or more
NonNegative(a) == a.type # "undefined" /\ ~a.nan /\ (~a.neg \/ a.mant = 0)

(***************************************************************************)
(* C19: for every total and vat input that passes validation, the gross    *)
(* amount and the tax amount placed in the record payload are              *)
(* non-negative numbers; a minus sign in the input never produces a        *)
(* negative value upstream.                                                *)
(***************************************************************************)
C19_Original ==
    \A r \in Reqs : handler[r] \in CreateRecordHandlers =>
        \A i \in RecordSends(r) :
            /\ NonNegative(log[r][i].payload.gross)
            /\ log[r][i].payload.tax.type # "undefined"
                  => NonNegative(log[r][i].payload.tax)

(***************************************************************************)
(* C20: the dated_on sent upstream (and due_on, which is equal to it on a  *)
(* Bill) is the input date when that date passes the YYYY-MM-DD            *)
(* validation, and the current processing date when the input date is      *)
(* missing or fails the validation.                                        *)
(***************************************************************************)
C20_Original ==
    \A r \in Reqs : handler[r] \in CreateRecordHandlers =>
        \A i \in RecordSends(r) :
            /\ IsIsoDate(inp[r].date) => log[r][i].payload.dated_on = inp[r].date
            /\ ~IsIsoDate(inp[r].date) => log[r][i].payload.dated_on = today
            /\ handler[r] \in BillHandlers =>
                  log[r][i].payload.due_on = log[r][i].payload.dated_on

(***************************************************************************)
(* C21: the tax value of the record is included in the payload only if a   *)
(* VAT input is present, and an included tax value is never negative;      *)
(* with no VAT input the payload has no tax value.                         *)
(***************************************************************************)
C21_Original ==
    \A r \in Reqs : handler[r] \in WithTokenHandlers =>
        \A i \in RecordSends(r) :
            LET tax == log[r][i].payload.tax
            IN  /\ inp[r].vat = << >> => tax.type = "undefined"
                /\ tax.type # "undefined" => (inp[r].vat # << >> /\ NonNegative(tax))

(***************************************************************************)
(* C22: every Bill payload sent to the record-creation endpoint contains   *)
(* exactly one line item, and its category is the fixed default category   *)
(* (general purchases, /categories/280), whatever the input.               *)
(***************************************************************************)
C22_Original ==
    \A r \in Reqs : handler[r] \in BillHandlers \cup {Confirm} =>
        \A i \in SendsOf(r, "bill_create") :
            /\ log[r][i].payload.items = 1
            /\ log[r][i].payload.category = GeneralPurchases

(***************************************************************************)
(* C23: a create-Expense request issues no counterparty search or create   *)
(* call: it first looks up the current authenticated user, and the         *)
(* expense payload references that user, carries dated_on with no due      *)
(* date, and uses a description field instead of reference.                *)
(***************************************************************************)
C23_ExpensePayload ==
    \A r \in Reqs : (Started(r) /\ handler[r] = FaExpense) =>
        LET l == log[r]
        IN  /\ \A i \in ApiIdx(r) :
                  /\ l[i].step \notin {"contact_search", "contact_create"}
                  /\ l[i].url.path \notin ContactPaths
            /\ l # << >> =>
                  /\ l[1].step = "user_lookup"
                  /\ l[1].method = "GET"
                  /\ l[1].url.path = "/users/me"
            /\ \A i \in SendsOf(r, "expense_create") :
                  /\ \E j \in SendsOf(r, "user_lookup") :
                        /\ j < i
                        /\ AnsweredOk(r, j)
                        /\ l[j].got # NoRef
                        /\ l[i].payload.party = l[j].got
                  /\ l[i].payload.dated_on \in {inp[r].date, today}
                  /\ l[i].payload.dated_on # << >>
                  /\ l[i].payload.due_on = << >>
                  /\ l[i].payload.description = OrElse(inp[r].merchant, Receipt)
                  /\ l[i].payload.description # << >>
                  /\ l[i].payload.reference = << >>

\* the expense has been sent with the user the lookup returned, for a
\* request that names no merchant
C23_Witness ==
    \E r \in Reqs :
        /\ handler[r] = FaExpense
        /\ inp[r].merchant = << >>
        /\ \E i \in SendsOf(r, "expense_create") :
              /\ log[r][i].payload.party = log[r][1].got
              /\ log[r][i].payload.description = Receipt

(***************************************************************************)
(* The analyser's normalisers                                              *)
(***************************************************************************)
\* C24: for each of "2025-11-09", "09/11/2025" and "09 Nov 2025"
\* normalizeDateLoose returns "2025-11-09".
C24_Original ==
    (/\ ocr.fn = "normalizeDateLoose" /\ ocr.done
     /\ ocr.arg \in {<<"2", "0", "2", "5", "-", "1", "1", "-", "0", "9">>, <<"0", "9", "/", "1", "1", "/", "2", "0", "2", "5">>, <<"0", "9", " ", "N", "o", "v", " ", "2", "0", "2", "5">>})
    => ocr.out = <<"2", "0", "2", "5", "-", "1", "1", "-", "0", "9">>

\* C25: an ambiguous NN/NN/NNNN date, both leading numbers in 1..12, is read
\* day-first: the result is year, second number, first number
\* ("03/04/2025" gives "2025-04-03").
C25_Original ==
    LET s == ocr.arg
        Ambiguous ==
            /\ Len(s) = 10
            /\ \A k \in 1..10 : IF k \in {3, 6} THEN s[k] = "/" ELSE s[k] \in Digits
            /\ IsMonth(parseInt(SubSeq(s, 1, 2)))
            /\ IsMonth(parseInt(SubSeq(s, 4, 5)))
    IN  (ocr.fn = "normalizeDateLoose" /\ ocr.done /\ Ambiguous)
        => ocr.out = SubSeq(s, 7, 10) \o <<"-">> \o SubSeq(s, 4, 5)
                        \o <<"-">> \o SubSeq(s, 1, 2)

\* C26: normalizeDateLoose returns the empty string, or the date whose day,
\* month and year are the numbers a pattern matched in the input, with the
\* month in 1..12 and the day in 1..31.
C26_Original ==
    LET m1 == Match(ocr.arg, DayFirstPattern)
        m2 == Match(ocr.arg, MonthNamePattern)
        m3 == Match(ocr.arg, YearFirstPattern)
        MatchedDates ==
            (IF m1.found
             THEN {[y |-> YearOf(m1.g3), m |-> parseInt(m1.g2), d |-> parseInt(m1.g1)]}
             ELSE {})
            \cup (IF m2.found
                  THEN {[y |-> YearOf(m2.g3), m |-> monthMap(toLowerCase(m2.g2)),
                         d |-> parseInt(m2.g1)]}
                  ELSE {})
            \cup (IF m3.found
                  THEN {[y |-> parseInt(m3.g1), m |-> parseInt(m3.g2),
                         d |-> parseInt(m3.g3)]}
                  ELSE {})
        DateString(t) ==
            PadStart(Decimal(t.y), 4) \o <<"-">> \o PadStart(Decimal(t.m), 2)
                \o <<"-">> \o PadStart(Decimal(t.d), 2)
    IN  (ocr.fn = "normalizeDateLoose" /\ ocr.done)
        => \/ ocr.out = << >>
           \/ \E t \in MatchedDates :
                IsMonth(t.m) /\ IsDay(t.d) /\ ocr.out = DateString(t)

\* C27: extractFirstDateFromText on "INVOICE_DATE: foo\nTOTAL: 09/11/2025 bar"
\* returns "2025-11-09".
C27_Original ==
    (/\ ocr.fn = "extractFirstDateFromText" /\ ocr.done
     /\ ocr.arg = <<"I", "N", "V", "O", "I", "C", "E", "_", "D", "A", "T", "E", ":", " ", "f", "o", "o">> \o <<"\n">> \o <<"T", "O", "T", "A", "L", ":", " ", "0", "9", "/", "1", "1", "/", "2", "0", "2", "5", " ", "b", "a", "r">>)
    => ocr.out = <<"2", "0", "2", "5", "-", "1", "1", "-", "0", "9">>

\* C28: for an amount string of digits and separators with a leading "-",
\* normMoney returns a value with exactly two decimals that is not negative:
\* digits, a point and two digits.
C28_Original ==
    LET s == ocr.arg
        SignedAmount ==
            /\ Len(s) >= 2
            /\ s[1] = "-"
            /\ \A k \in 2..Len(s) : s[k] \in Digits \cup {".", ","}
            /\ \E k \in 2..Len(s) : s[k] \in Digits
        TwoDecimals(v) ==
            /\ Len(v) >= 4
            /\ \A k \in 1..Len(v) : IF k = Len(v) - 2 THEN v[k] = "." ELSE v[k] \in Digits
    IN  (ocr.fn = "normMoney" /\ ocr.done /\ SignedAmount) => TwoDecimals(ocr.out)

\* C29: normMoney returns (it does not throw), and for an input that is not
\* numeric, one with no digit at all or with several decimal separators,
\* it returns the empty string.
C29_Original ==
    LET s == ocr.arg
        NonNumeric ==
            \/ \A k \in 1..Len(s) : s[k] \notin Digits
            \/ Len(SelectSeq(s, LAMBDA c : c \in {".", ","})) > 1
    IN  (ocr.fn = "normMoney" /\ ocr.done /\ NonNumeric) => ocr.out = << >>

\* C30: whenever the text holds a substring that matches one of the three
\* date patterns and normalises to a date, extractFirstDateFromText returns
\* a date, also when an earlier match of the same pattern does not normalise.
C30_Original ==
    LET DateMatches ==
            UNION { { SubSeq(ocr.arg, x.p, x.p + x.a + x.b + x.c + 1) :
                        x \in Candidates(ocr.arg, pat) } :
                    pat \in {DayFirstPattern, MonthNamePattern, YearFirstPattern} }
    IN  (/\ ocr.fn = "extractFirstDateFromText" /\ ocr.done
         /\ \E m \in DateMatches : normalizeDateLoose(m, ocr.tz) # << >>)
        => ocr.out # << >>

(***************************************************************************)
(* The attachment call and its response                                    *)
(***************************************************************************)
\* C31: whenever the attachment call is answered with an HTTP success
\* status, the request ends and is answered with success, whatever the
\* response body holds (empty, JSON or not JSON).
C31_Original ==
    \A r \in Reqs : handler[r] \in {FaUpload, FaBillAttach, FaBillPut} =>
        \A i \in AttachIdx(r) :
            AnsweredOk(r, i) =>
                /\ pc[r] = "done"
                /\ resp[r].status = 200
                /\ resp[r].flag = "success"

(***************************************************************************)
(* The Counterparty Resolver across two requests                           *)
(***************************************************************************)
\* C32: a counterparty is created on first use only: of two sequential
\* create-bill requests with the same merchant value, served by the same
\* route, the second finds the contact the first created and issues no
\* create-contact call.
C32_Original ==
    (/\ Started(1) /\ Started(2)
     /\ handler[1] = handler[2]
     /\ inp[1].merchant = inp[2].merchant)
    => \A i \in SendsOf(1, "contact_create") : \A j \in SendsOf(2, "contact_search") :
          (AnsweredOk(1, i) /\ AnsweredOk(2, j)) =>
              /\ log[2][j].got = log[1][i].got
              /\ SendsOf(2, "contact_create") = {}

(***************************************************************************)
(* C33: under any interleaving of two requests, the request resent after   *)
(* a 401 carries the access token that this call's own refresh returned,   *)
(* never a token that another request's refresh wrote to process.env.      *)
(***************************************************************************)
C33_ResendOwnToken ==
    \A r \in Reqs : handler[r] \in WithTokenHandlers \cup {FaUpload} =>
        \A i \in ApiIdx(r) :
            IsResend(r, i) =>
                /\ log[r][i].token = log[r][i - 1].got
                /\ log[r][i].token # NoToken
                /\ \A q \in Reqs \ {r} : \A j \in TokenIdx(q) :
                      log[r][i].token # log[q][j].got

\* between the first send of a call and its own refresh, the other request
\* refreshed and wrote its token; the resend carries the later, own token
C33_Witness ==
    \E r \in Reqs : \E i \in ApiIdx(r) :
        /\ IsResend(r, i)
        /\ log[r][i].token = log[r][i - 1].got
        /\ \E q \in Reqs \ {r} : \E j \in TokenIdx(q) :
              /\ log[q][j].got > log[r][i - 2].token
              /\ log[q][j].got < log[r][i].token

(***************************************************************************)
(* C34: the tokens in process.env change only as the effect of a token     *)
(* response with a success status: a logical call whose first response is  *)
(* not 401 makes no refresh call and leaves both tokens as they were, and  *)
(* a refresh answered with a non-success status leaves both as they were.  *)
(***************************************************************************)
C34_TokensChangeOnRefresh ==
    [][ LET same == accessToken' = accessToken /\ refreshToken' = refreshToken
            \* the call that request r waits for, once answered
            answer(r) == log'[r][Len(log[r])]
        IN  /\ ~same =>
                  \E r \in Reqs :
                      /\ pc[r] = "waitToken"
                      /\ answer(r).op = "token"
                      /\ Ok(answer(r).status)
            /\ \A r \in Reqs :
                  (pc[r] = "wait1" /\ pc'[r] # "wait1" /\ answer(r).status # 401) =>
                      /\ same
                      /\ Len(log'[r]) = Len(log[r])
                      /\ pc'[r] # "waitToken"
            /\ \A r \in Reqs :
                  (pc[r] = "waitToken" /\ pc'[r] # "waitToken" /\ ~Ok(answer(r).status)) =>
                      same ]_vars

\* a refresh was answered with a failure and the tokens are the ones that
\* were sent: the access token of the first send, the refresh token of the
\* token request
C34_Witness ==
    \E r \in Reqs : \E i \in TokenIdx(r) :
        /\ IsAnswered(r, i)
        /\ ~Ok(log[r][i].status)
        /\ accessToken = log[r][i - 1].token
        /\ refreshToken = log[r][i].token

(***************************************************************************)
(* C35: within one request, with no other request in flight, once a        *)
(* refresh has succeeded and returned an access token, every later call    *)
(* of the request sends its first attempt with the refreshed token, and    *)
(* when the upstream accepts the refreshed token no further refresh is     *)
(* made.                                                                   *)
(***************************************************************************)
C35_RefreshedTokenReused ==
    \A r \in Reqs :
        LET l == log[r]
            \* the refreshes that succeeded and returned an access token
            Got == { i \in TokenIdx(r) : AnsweredOk(r, i) /\ l[i].got # NoToken }
            Before(j) == { i \in Got : i < j }
            LastBefore(j) == CHOOSE i \in Before(j) : \A k \in Before(j) : k <= i
            \* no send that carries a refreshed token is answered 401
            Accepted == \A k \in ApiIdx(r) :
                            (\E i \in Got : l[k].token = l[i].got) => l[k].status # 401
        IN  /\ \A j \in ApiIdx(r) :
                  (~IsResend(r, j) /\ Before(j) # {}) =>
                      l[j].token = l[LastBefore(j)].got
            /\ Accepted => \A i \in Got : \A j \in TokenIdx(r) : j <= i

\* the first call was refreshed, and a later call sent the refreshed token
\* at once and was accepted
C35_Witness ==
    \E r \in Reqs : \E j \in ApiIdx(r) :
        /\ j > 3
        /\ ~IsResend(r, j)
        /\ 2 \in TokenIdx(r)
        /\ AnsweredOk(r, 2)
        /\ log[r][2].got # NoToken
        /\ log[r][j].token = log[r][2].got
        /\ log[r][j].step # log[r][2].step
        /\ AnsweredOk(r, j)

(***************************************************************************)
(* C36: in every run that reaches the attachment step, the attachment is   *)
(* bound to the reference that this request's own record-creation          *)
(* response returned (attached_to is that URL, or the PUT is addressed to  *)
(* it), never to a record another request created, under any interleaving  *)
(* of two requests.                                                        *)
(***************************************************************************)
C36_OwnRecord ==
    \A r \in Reqs : handler[r] \in {FaBillAttach, FaBillPut, FaExpense} =>
        \A i \in AttachIdx(r) :
            LET Created(q) == SendsOf(q, "bill_create") \cup SendsOf(q, "expense_create")
            IN  /\ \E j \in Created(r) :
                      /\ j < i
                      /\ AnsweredOk(r, j)
                      /\ log[r][j].got # NoRef
                      /\ log[r][i].attachedTo = log[r][j].got
                      /\ handler[r] = FaBillPut => log[r][i].url.ref = log[r][j].got
                /\ \A q \in Reqs \ {r} : \A k \in Created(q) :
                      log[q][k].got # NoRef =>
                          /\ log[r][i].attachedTo # log[q][k].got
                          /\ log[r][i].url.ref # log[q][k].got

\* both requests are at their attachment call at the same time, each with
\* the record it created itself
C36_Witness ==
    /\ pc[1] = "wait1" /\ pc[2] = "wait1"
    /\ Len(log[1]) \in AttachIdx(1) /\ Len(log[2]) \in AttachIdx(2)
    /\ Last(log[1]).attachedTo = refs[1].record
    /\ Last(log[2]).attachedTo = refs[2].record
    /\ refs[1].record # refs[2].record
    /\ refs[1].record # NoRef /\ refs[2].record # NoRef

(***************************************************************************)
(* C37: in the multipart upload handler a credential refresh that fails    *)
(* during one strategy attempt ends the request at once with an HTTP 500   *)
(* error: the token call is the last upstream call of the request, and the *)
(* remaining strategies are not attempted.                                 *)
(***************************************************************************)
C37_FailedRefreshEnds ==
    \A r \in Reqs : handler[r] = FaUpload =>
      \A i \in TokenIdx(r) :
        (IsAnswered(r, i) /\ (~Ok(log[r][i].status) \/ log[r][i].got = NoToken)) =>
            /\ i = Len(log[r])
            /\ pc[r] = "done"
            /\ resp[r].status = 500
            /\ resp[r].flag = "error"
            /\ \A j \in ApiIdx(r) : log[r][j].attempt <= log[r][i].attempt

\* the refresh fails in the second of the four attempts
C37_Witness ==
    \E r \in Reqs :
        /\ handler[r] = FaUpload
        /\ pc[r] = "done"
        /\ Len(log[r]) \in TokenIdx(r)
        /\ ~Ok(Last(log[r]).status)
        /\ Last(log[r]).attempt = 2
        /\ attempt[r] < NumAttempts
        /\ resp[r].status = 500

(***************************************************************************)
(* C38: every request terminates with exactly one response after a bounded *)
(* number of upstream calls, provided each upstream call returns: a        *)
(* request makes at most 8 accounting-API sends and at most 4 token        *)
(* refreshes, it is answered when and only when it is done, an answered    *)
(* request neither changes its response nor calls upstream again, and      *)
(* every request that started is eventually done.                          *)
(***************************************************************************)
C38_BoundedTermination ==
    /\ [](\A r \in Reqs :
            /\ Cardinality(ApiIdx(r)) <= 8
            /\ Cardinality(TokenIdx(r)) <= 4
            /\ (pc[r] = "done") <=> (resp[r] # NoResp))
    /\ [][\A r \in Reqs : pc[r] = "done" =>
            /\ pc'[r] = "done"
            /\ resp'[r] = resp[r]
            /\ log'[r] = log[r]]_vars
    /\ \A r \in Reqs : (Started(r) ~> pc[r] = "done")

\* a request that used all 8 sends and all 4 refreshes and was answered
C38_Witness ==
    \E r \in Reqs :
        /\ pc[r] = "done"
        /\ resp[r] # NoResp
        /\ Cardinality(ApiIdx(r)) = 8
        /\ Cardinality(TokenIdx(r)) = 4
        /\ \A i \in 1..Len(log[r]) : IsAnswered(r, i)

(***************************************************************************)
(* C39: every request that carries the bearer access token is addressed to *)
(* a URL under the configured base API URL: never to an address taken from *)
(* an upstream response body, nor to one fixed independently of the        *)
(* configuration.                                                          *)
(***************************************************************************)
C39_Original ==
    \A r \in Reqs : \A i \in ApiIdx(r) : log[r][i].url.base = "config"
====
